---- MODULE Spec2Model ----
(***************************************************************************)
(* External offers service: approval click handler (server.js 311-342)     *)
(* and deal finalization (server.js 348-518) over the Airtable record      *)
(* store (lib/airtable.js) and the Discord message transport               *)
(* (lib/discord.js).                                                       *)
(*                                                                         *)
(* Conventions.  Money is counted in mils (1/1000 euro), so that round2 is *)
(* a real rounding.  A JS string that the code inspects (trim, case,       *)
(* includes) is a tuple of one-character strings; the empty tuple stands   *)
(* for null / undefined / "" (the code treats the three alike wherever     *)
(* such a value is read).  An optional number is <<>> or <<n>>.  A linked  *)
(* record field is a tuple of record ids.                                  *)
(***************************************************************************)
EXTENDS Integers, Sequences, FiniteSets, TLC

\* ------------------------------------------------------------------ bounds
MaxClicks   == 2    \* button clicks made by sellers in one behaviour
MaxFinalize == 1    \* POST /finalize-external-deal calls in one behaviour (SpecFin)
MaxRaceCalls == 2   \* POST /finalize-external-deal calls in one behaviour (SpecRace)
MaxOverlap  == 3    \* POST /finalize-external-deal calls in one behaviour (SpecOverlap)
MaxFaults   == 1    \* failing collaborator calls in one behaviour
MaxSellers  == 2    \* seller entries in one POST /external-offers payload

\* ----------------------------------------------------------- text helpers
UpperAlpha == <<"A","B","C","D","E","F","G","H","I","J","K","L","M",
                "N","O","P","Q","R","S","T","U","V","W","X","Y","Z">>
LowerAlpha == <<"a","b","c","d","e","f","g","h","i","j","k","l","m",
                "n","o","p","q","r","s","t","u","v","w","x","y","z">>

upperChar(c) ==
  IF \E i \in DOMAIN LowerAlpha : LowerAlpha[i] = c
  THEN UpperAlpha[CHOOSE i \in DOMAIN LowerAlpha : LowerAlpha[i] = c]
  ELSE c

lowerChar(c) ==
  IF \E i \in DOMAIN UpperAlpha : UpperAlpha[i] = c
  THEN LowerAlpha[CHOOSE i \in DOMAIN UpperAlpha : UpperAlpha[i] = c]
  ELSE c

toUpperCase(s) == [i \in DOMAIN s |-> upperChar(s[i])]
toLowerCase(s) == [i \in DOMAIN s |-> lowerChar(s[i])]

\* String.prototype.includes
includes(s, sub) ==
  \E i \in 0..(Len(s) - Len(sub)) : SubSeq(s, i + 1, i + Len(sub)) = sub

\* String.prototype.trim
RECURSIVE trimStart(_)
trimStart(s) == IF s # <<>> /\ Head(s) = " " THEN trimStart(Tail(s)) ELSE s
RECURSIVE trimEnd(_)
trimEnd(s) ==
  IF s # <<>> /\ s[Len(s)] = " " THEN trimEnd(SubSeq(s, 1, Len(s) - 1)) ELSE s
trim(s) == trimEnd(trimStart(s))

\* the literals the code compares against
T_MARGIN  == <<"M","A","R","G","I","N">>
T_PRIVATE == <<"P","R","I","V","A","T","E">>
T_private == <<"p","r","i","v","a","t","e">>
T_VAT21   == <<"V","A","T","2","1">>
T_VAT21p  == <<"V","A","T"," ","2","1","%">>
T_VAT0    == <<"V","A","T","0">>
T_VAT0p   == <<"V","A","T"," ","0","%">>
L_Margin  == <<"M","a","r","g","i","n">>
L_Private == <<"P","r","i","v","a","t","e">>

\* ------------------------------------------------------------ money helper
\* round2: Math.round(n * 100) / 100, on mils (n >= 0)
round2(n) == ((n + 5) \div 10) * 10

\* ------------------------------------------------------------- the world
Orders == {"o1", "o2"}
AffiliateRecords == {"recA1"}
Units  == {"u1", "u2"}
Msgs   == {"m1", "m2", "m3"}
FanoutMsgs == Msgs \cup {"m4"}   \* a third offer message for order o1

\* custom_id of the buttons of a sent message, without the leading action:
\* orderRecId | sellerId | inventoryRecordId | offerPrice | vatLabel
ButtonOf(m) ==
  CASE m = "m1" -> [orderRecId |-> "o1", sellerId |-> "SE-1", inventoryRecordId |-> "u1",
                    offerPrice |-> 90000, vatLabel |-> T_VAT21]
    [] m = "m2" -> [orderRecId |-> "o1", sellerId |-> "SE-2", inventoryRecordId |-> "u2",
                    offerPrice |-> 100000, vatLabel |-> L_Margin]
    [] m = "m3" -> [orderRecId |-> "o2", sellerId |-> "SE-1", inventoryRecordId |-> "u1",
                    offerPrice |-> 95000, vatLabel |-> T_VAT0]
    [] m = "m4" -> [orderRecId |-> "o1", sellerId |-> "SE-3", inventoryRecordId |-> "u2",
                    offerPrice |-> 98000, vatLabel |-> L_Margin]

customId(action, m) ==
  LET b == ButtonOf(m) IN
  <<action, b.orderRecId, b.sellerId, b.inventoryRecordId, b.offerPrice, b.vatLabel>>

VARIABLES
  ext,        \* External Sales Log: order -> record (fields the service writes)
  opIn,       \* External Sales Log: order -> fields set by operators / lookups
  invSeller,  \* Inventory: unit -> Linked Seller (tuple of seller record ids)
  invQty,     \* Inventory: unit -> Quantity (<<>> when missing or non-numeric)
  invStock,   \* Inventory: unit -> Stock Levels (tuple of stock-level record ids)
  offerLog,   \* Offer Messages table: the messages that were logged
  msgs,       \* Discord: message -> [disabled, note]
  pending,    \* button interactions made by sellers, not yet delivered
  clicks,     \* number of clicks made
  ch,         \* click handler instances, one per delivered interaction
  fh,         \* finalize handler instances, one per call
  sales,      \* Sales table: the created records (id = number of the creating call)
  affiliates, \* Affiliate Sales table: the created records
  faults,     \* number of failed collaborator calls
  fo,         \* the POST /external-offers call being handled
  sentMsgs,   \* Discord: the messages that call posted, in order
  logRows,    \* Offer Messages table: the rows that call wrote
  dec,        \* one application of decideModeAndDisplay: its input and output
  wr          \* one write of a record with single-choice fields: its requests

vars == <<ext, opIn, invSeller, invQty, invStock, offerLog, msgs, pending, clicks, ch, fh,
          sales, affiliates, faults, fo, sentMsgs, logRows, dec, wr>>

storeVars == <<opIn, invSeller, invStock>>
sendVars == <<fo, sentMsgs, logRows, dec, wr>>

\* A collaborator call either succeeds or fails; failures are budgeted.
Outcome(ok) ==
  /\ ok \in BOOLEAN
  /\ ~ok => faults < MaxFaults
  /\ faults' = IF ok THEN faults ELSE faults + 1

\* ------------------------------------------------------- record helpers
\* getFirstLinkedId
getFirstLinkedId(val) == IF Len(val) > 0 THEN val[1] ELSE ""

BlankExt ==
  [offerStatus |-> "", confirmedPrice |-> <<>>, confirmedSeller |-> <<>>,
   confirmedInv |-> <<>>, offerVatType |-> <<>>, dealStatus |-> "",
   feedback |-> [kind |-> "", salesId |-> 0]]

\* (mutant) a confirmation write that does not record the inventory unit
setExternalConfirmationNoUnit(rec, confirmedPrice, confirmedSellerRecId, statusName, offerVatTypeLabel, dealStatusName, confirmedInventoryRecId) ==
  [rec EXCEPT
     !.confirmedPrice  = <<round2(confirmedPrice)>>,
     !.confirmedSeller = IF confirmedSellerRecId # "" THEN <<confirmedSellerRecId>> ELSE <<>>,
     !.offerStatus     = statusName,
     !.offerVatType    = IF offerVatTypeLabel # <<>> THEN offerVatTypeLabel ELSE @,
     !.dealStatus      = IF dealStatusName # "" THEN dealStatusName ELSE @]

\* setExternalConfirmation: the PATCH body applied to the stored record.
\* The structured and the plain-string encodings carry the same values.
setExternalConfirmation(rec, confirmedPrice, confirmedSellerRecId, statusName, offerVatTypeLabel, dealStatusName, confirmedInventoryRecId) ==
  [rec EXCEPT
     !.confirmedPrice  = <<round2(confirmedPrice)>>,
     !.confirmedSeller = IF confirmedSellerRecId # "" THEN <<confirmedSellerRecId>> ELSE <<>>,
     !.confirmedInv    = IF confirmedInventoryRecId # "" THEN <<confirmedInventoryRecId>> ELSE @,
     !.offerStatus     = statusName,
     !.offerVatType    = IF offerVatTypeLabel # <<>> THEN offerVatTypeLabel ELSE @,
     !.dealStatus      = IF dealStatusName # "" THEN dealStatusName ELSE @]

\* disableMessageButtonsGateway: both buttons replaced by disabled ones, content := note
disableMessageButtonsGateway(ms, m, note) ==
  [ms EXCEPT ![m] = [disabled |-> TRUE, note |-> note]]

\* server.js 241, airtable.js 168: the Offer Price logged for a message
LoggedPrice(m) == round2(ButtonOf(m).offerPrice)

\* listOfferMessagesForOrder
listOfferMessagesForOrder(orderRecId) ==
  IF orderRecId = "" THEN {}
  ELSE {m \in offerLog : ButtonOf(m).orderRecId = orderRecId}

\* ------------------------------------------------- click handler instances
IdleClick == [pc |-> "unused", action |-> "", orderRecId |-> "", sellerId |-> "",
              inventoryRecordId |-> "", offerPrice |-> 0, vatLabel |-> <<>>,
              messageId |-> "", confirmedSellerRecId |-> "", todo |-> {},
              wrote |-> FALSE, outcome |-> "",
              sawTerms |-> FALSE, sawError |-> FALSE]

ClickIds == 1..MaxClicks
Started  == {h \in ClickIds : ch[h].pc # "unused"}
InFlight == {h \in ClickIds : ch[h].pc \notin {"unused", "done"}}

\* what a handler finds when it is called (kept for the properties only)
HasTerms(o) == ext[o].confirmedSeller # <<>>
ErroredOrders == {ch[h].orderRecId : h \in {x \in ClickIds : ch[x].outcome = "error"}}

\* A seller presses a button of a message whose buttons are still enabled.
UserClick(m, action) ==
  /\ clicks < MaxClicks
  /\ ~msgs[m].disabled
  /\ pending' = pending \cup {[customId |-> customId(action, m), messageId |-> m]}
  /\ clicks' = clicks + 1
  /\ UNCHANGED <<ext, storeVars, sendVars, invQty, offerLog, msgs, ch, fh, sales, affiliates, faults>>

\* (mutant) one lock for all orders: a confirm is refused while any handler runs
HandlerEntryGlobalLock(action, orderRecId) ==
  IF action = "deny_ext" THEN "deny"
  ELSE IF action # "confirm_ext" THEN "done"
  ELSE IF InFlight # {} THEN "done"
  ELSE "resolve"

\* (mutant) a lock taken on entry and not released when the handler fails
HandlerEntryWedged(action, orderRecId) ==
  IF action = "deny_ext" THEN "deny"
  ELSE IF action # "confirm_ext" THEN "done"
  ELSE IF orderRecId \in ErroredOrders THEN "done"
  ELSE "resolve"

\* server.js 313-319: the branch taken on entry of the handler
HandlerEntry(action, orderRecId) ==
  IF action = "deny_ext" THEN "deny"
  ELSE IF action # "confirm_ext" THEN "done"
  ELSE "resolve"

\* discord.js 29-42: InteractionCreate parses the custom id and calls the handler
Dispatch(e) ==
  /\ e \in pending
  /\ Cardinality(Started) < MaxClicks
  /\ LET h == Cardinality(Started) + 1
         c == e.customId
         entry == HandlerEntry(c[1], c[2])
     IN ch' = [ch EXCEPT ![h] =
                 [IdleClick EXCEPT !.pc = entry, !.action = c[1], !.orderRecId = c[2],
                                   !.sellerId = c[3], !.inventoryRecordId = c[4],
                                   !.offerPrice = c[5], !.vatLabel = c[6],
                                   !.messageId = e.messageId,
                                   !.sawTerms = HasTerms(c[2]),
                                   !.sawError = c[2] \in ErroredOrders,
                                   !.outcome = IF entry = "done" THEN "ignored" ELSE ""]]
  /\ pending' = pending \ {e}
  /\ UNCHANGED <<ext, storeVars, sendVars, invQty, offerLog, msgs, clicks, fh, sales, affiliates, faults>>

\* server.js 339-341: an error thrown anywhere in the handler is logged
Caught(h) == [ch EXCEPT ![h].pc = "done", ![h].outcome = "error"]

\* (mutant) a deny that also marks the order
DenyStepMarksOrder(h, ok) ==
  /\ ch[h].pc = "deny"
  /\ Outcome(ok)
  /\ IF ok
     THEN /\ msgs' = disableMessageButtonsGateway(msgs, ch[h].messageId,
                        [kind |-> "denied", who |-> ch[h].sellerId])
          /\ ext' = [ext EXCEPT ![ch[h].orderRecId].offerStatus = "Denied"]
          /\ ch' = [ch EXCEPT ![h].pc = "done", ![h].outcome = "denied"]
     ELSE /\ msgs' = msgs
          /\ ext' = ext
          /\ ch' = Caught(h)
  /\ UNCHANGED <<storeVars, sendVars, invQty, offerLog, pending, clicks, fh, sales, affiliates>>

\* server.js 313-316
DenyStep(h, ok) ==
  /\ ch[h].pc = "deny"
  /\ Outcome(ok)
  /\ IF ok
     THEN /\ msgs' = disableMessageButtonsGateway(msgs, ch[h].messageId,
                        [kind |-> "denied", who |-> ch[h].sellerId])
          /\ ch' = [ch EXCEPT ![h].pc = "done", ![h].outcome = "denied"]
     ELSE /\ msgs' = msgs
          /\ ch' = Caught(h)
  /\ UNCHANGED <<ext, storeVars, sendVars, invQty, offerLog, pending, clicks, fh, sales, affiliates>>

\* server.js 319, airtable.js 187-192: getInventoryLinkedSellerId
ResolveStep(h, ok) ==
  /\ ch[h].pc = "resolve"
  /\ Outcome(ok)
  /\ LET id == getFirstLinkedId(invSeller[ch[h].inventoryRecordId]) IN
     IF ok /\ id # ""
     THEN ch' = [ch EXCEPT ![h].pc = "write", ![h].confirmedSellerRecId = id]
     ELSE ch' = Caught(h)
  /\ UNCHANGED <<ext, storeVars, sendVars, invQty, offerLog, msgs, pending, clicks, fh, sales, affiliates>>

\* (mutant) the confirmation also creates the Sale and takes the unit out of
\* stock, as createSaleAndDecrement did
WriteStepWithSale(h, ok) ==
  /\ ch[h].pc = "write"
  /\ Outcome(ok)
  /\ IF ok
     THEN /\ ext' = [ext EXCEPT ![ch[h].orderRecId] =
                      setExternalConfirmation(@, ch[h].offerPrice, ch[h].confirmedSellerRecId,
                                              "Confirmed", ch[h].vatLabel, "Closing",
                                              ch[h].inventoryRecordId)]
          /\ sales' = sales \cup {[id |-> 0, order |-> ch[h].orderRecId,
                                   unit |-> ch[h].inventoryRecordId]}
          /\ invQty' = [invQty EXCEPT ![ch[h].inventoryRecordId] =
                          IF @ # <<>> /\ @[1] > 0 THEN <<@[1] - 1>> ELSE <<0>>]
          /\ ch' = [ch EXCEPT ![h].pc = "disableSelf", ![h].wrote = TRUE]
     ELSE /\ ext' = ext /\ sales' = sales /\ invQty' = invQty
          /\ ch' = Caught(h)
  /\ UNCHANGED <<storeVars, sendVars, offerLog, msgs, pending, clicks, fh, affiliates>>

\* (mutant) a failed confirmation write is swallowed and the messages are
\* edited all the same
WriteStepSwallowsError(h, ok) ==
  /\ ch[h].pc = "write"
  /\ Outcome(ok)
  /\ ext' = IF ok
            THEN [ext EXCEPT ![ch[h].orderRecId] =
                    setExternalConfirmation(@, ch[h].offerPrice, ch[h].confirmedSellerRecId,
                                            "Confirmed", ch[h].vatLabel, "Closing",
                                            ch[h].inventoryRecordId)]
            ELSE ext
  /\ ch' = [ch EXCEPT ![h].pc = "disableSelf", ![h].wrote = ok]
  /\ UNCHANGED <<storeVars, sendVars, invQty, offerLog, msgs, pending, clicks, fh, sales, affiliates>>

\* server.js 321-329, airtable.js 207-247
WriteStep(h, ok) ==
  /\ ch[h].pc = "write"
  /\ Outcome(ok)
  /\ IF ok
     THEN /\ ext' = [ext EXCEPT ![ch[h].orderRecId] =
                      setExternalConfirmation(@, ch[h].offerPrice, ch[h].confirmedSellerRecId,
                                              "Confirmed", ch[h].vatLabel, "Closing",
                                              ch[h].inventoryRecordId)]
          /\ ch' = [ch EXCEPT ![h].pc = "disableSelf", ![h].wrote = TRUE]
     ELSE /\ ext' = ext
          /\ ch' = Caught(h)
  /\ UNCHANGED <<storeVars, sendVars, invQty, offerLog, msgs, pending, clicks, fh, sales, affiliates>>

\* server.js 331
DisableSelfStep(h, ok) ==
  /\ ch[h].pc = "disableSelf"
  /\ Outcome(ok)
  /\ IF ok
     THEN /\ msgs' = disableMessageButtonsGateway(msgs, ch[h].messageId,
                        [kind |-> "confirmedBy", who |-> ch[h].sellerId])
          /\ ch' = [ch EXCEPT ![h].pc = "list"]
     ELSE /\ msgs' = msgs
          /\ ch' = Caught(h)
  /\ UNCHANGED <<ext, storeVars, sendVars, invQty, offerLog, pending, clicks, fh, sales, affiliates>>

\* server.js 333-337: list the logged messages, drop the clicked one, start a
\* disable for each of the others
ListStep(h, ok) ==
  /\ ch[h].pc = "list"
  /\ Outcome(ok)
  /\ IF ok
     THEN LET others == listOfferMessagesForOrder(ch[h].orderRecId) \ {ch[h].messageId} IN
          ch' = [ch EXCEPT ![h].todo = others,
                           ![h].pc = IF others = {} THEN "done" ELSE "siblings",
                           ![h].outcome = IF others = {} THEN "confirmed" ELSE ""]
     ELSE ch' = Caught(h)
  /\ UNCHANGED <<ext, storeVars, sendVars, invQty, offerLog, msgs, pending, clicks, fh, sales, affiliates>>

\* (mutant) Promise.all: the first rejected disable ends the handler
SiblingStepFailFast(h, m, ok) ==
  /\ ch[h].pc = "siblings"
  /\ m \in ch[h].todo
  /\ Outcome(ok)
  /\ msgs' = IF ok
             THEN disableMessageButtonsGateway(msgs, m,
                     [kind |-> "closedOther", who |-> ""])
             ELSE msgs
  /\ LET rest == ch[h].todo \ {m} IN
     ch' = IF ok
           THEN [ch EXCEPT ![h].todo = rest,
                           ![h].pc = IF rest = {} THEN "done" ELSE "siblings",
                           ![h].outcome = IF rest = {} THEN "confirmed" ELSE ""]
           ELSE Caught(h)
  /\ UNCHANGED <<ext, storeVars, sendVars, invQty, offerLog, pending, clicks, fh, sales, affiliates>>

\* server.js 334-338: Promise.allSettled, each disable settles on its own
SiblingStep(h, m, ok) ==
  /\ ch[h].pc = "siblings"
  /\ m \in ch[h].todo
  /\ Outcome(ok)
  /\ msgs' = IF ok
             THEN disableMessageButtonsGateway(msgs, m,
                     [kind |-> "closedOther", who |-> ""])
             ELSE msgs
  /\ LET rest == ch[h].todo \ {m} IN
     ch' = [ch EXCEPT ![h].todo = rest,
                      ![h].pc = IF rest = {} THEN "done" ELSE "siblings",
                      ![h].outcome = IF rest = {} THEN "confirmed" ELSE ""]
  /\ UNCHANGED <<ext, storeVars, sendVars, invQty, offerLog, pending, clicks, fh, sales, affiliates>>

\* ------------------------------------------------ finalize: pure helpers
\* field values as the record store returns them
Nul       == [kind |-> "null", v |-> <<>>]
Str(t)    == [kind |-> "str", v |-> t]   \* text / single-select name
Arr(ts)   == [kind |-> "arr", v |-> ts]  \* lookup: array of strings

\* server.js 57-78: toText
toText(val) ==
  CASE val.kind = "null" -> <<>>
    [] val.kind = "arr"  ->
         LET good == {i \in DOMAIN val.v : trim(val.v[i]) # <<>>} IN
         IF good = {} THEN <<>>
         ELSE trim(val.v[CHOOSE i \in good : \A j \in good : i <= j])
    [] val.kind = "str"  -> val.v

\* (mutant) a country test that knows the upper-case code only
isNLUpperOnly(s) == s = <<"N","L">>

\* server.js 34-40: isNL
isNL(s) ==
  IF s = <<>> THEN FALSE
  ELSE LET t == toLowerCase(trim(s)) IN
       \/ t \in {<<"n","l">>, <<"n","l","d">>,
                 <<"n","e","d","e","r","l","a","n","d">>,
                 <<"n","e","t","h","e","r","l","a","n","d","s">>,
                 <<"t","h","e"," ","n","e","t","h","e","r","l","a","n","d","s">>}
       \/ includes(t, <<"n","e","d","e","r">>)
       \/ includes(t, <<"n","e","t","h","e","r">>)
       \/ includes(t, <<"flag-nl">>)

\* (mutant) the Private selection mapped before the Margin regime is looked at
mapSellingVatPrivateFirst(offerVat, sellingSel) ==
  LET sel == toUpperCase(sellingSel)
      off == toUpperCase(offerVat)
  IN IF sel = T_PRIVATE THEN T_VAT21
     ELSE IF includes(off, T_MARGIN) THEN L_Margin
     ELSE IF sel = T_VAT21 \/ sel = T_VAT21p THEN T_VAT21
     ELSE IF sel = T_VAT0 \/ sel = T_VAT0p THEN T_VAT0
     ELSE IF sel = T_MARGIN THEN L_Margin
     ELSE <<>>

\* server.js 391-407: mapSellingVat
mapSellingVat(offerVat, sellingSel) ==
  LET sel == toUpperCase(sellingSel)
      off == toUpperCase(offerVat)
  IN IF includes(off, T_MARGIN) THEN L_Margin
     ELSE IF sel = T_PRIVATE THEN T_VAT21
     ELSE IF sel = T_VAT21 \/ sel = T_VAT21p THEN T_VAT21
     ELSE IF sel = T_VAT0 \/ sel = T_VAT0p THEN T_VAT0
     ELSE IF sel = T_MARGIN THEN L_Margin
     ELSE <<>>

\* (mutant) one floor, the VAT21 one, for every invoice type
minByVatSingle(f, mappedVat) == IF mappedVat # <<>> THEN f.minVat21 ELSE <<>>

\* server.js 462-467: minByVat[mappedVat]
minByVat(f, mappedVat) ==
  IF mappedVat = T_VAT0 THEN f.minVat0
  ELSE IF mappedVat = T_VAT21 THEN f.minVat21
  ELSE IF mappedVat = L_Margin THEN f.minMargin
  ELSE <<>>

Rejected(w) == [ok |-> FALSE, why |-> w, mappedVat |-> <<>>]

\* server.js 355-368: presence check
PresenceMissing(f) ==
  f.finalDealPrice = <<>> \/ Len(f.buyer) = 0 \/ Len(f.shippingLabel) = 0

\* server.js 370-381: confirmed-offer guard
ConfirmedOfferMissing(f) ==
  LET hasSKU == Len(f.sku) > 0
      hasSeller == Len(f.confirmedSeller) > 0
      hasConfirmedPrice == f.confirmedPrice # <<>>
  IN ~hasSKU \/ ~hasSeller \/ ~hasConfirmedPrice

\* server.js 383-475: selling VAT handling, structural validity, minimum floor
ValidateVat(f) ==
  LET offerVatType == toText(f.offerVatType)
      sellingVatSel == toText(f.sellingVatType)
      buyerCountry == toText(f.buyerCountry)
      buyerVatId == toText(f.buyerVatId)
      isPrivateSel == toLowerCase(sellingVatSel) = T_private
      mappedVat == mapSellingVat(offerVatType, sellingVatSel)
      finalDeal == f.finalDealPrice
      minForMapped == minByVat(f, mappedVat)
  IN IF mappedVat = <<>> THEN Rejected("invalidVat")
     ELSE IF includes(toUpperCase(offerVatType), T_MARGIN)
             /\ ~isPrivateSel /\ toUpperCase(sellingVatSel) # T_MARGIN
          THEN Rejected("marginMismatch")
     ELSE IF ~includes(toUpperCase(offerVatType), T_MARGIN)
             /\ mappedVat = T_VAT0 /\ isNL(buyerCountry)
          THEN Rejected("vat0NL")
     ELSE IF ~includes(toUpperCase(offerVatType), T_MARGIN)
             /\ mappedVat = T_VAT0 /\ buyerVatId = <<>>
          THEN Rejected("vat0NoVatId")
     ELSE IF minForMapped # <<>> /\ finalDeal # <<>> /\ finalDeal[1] < minForMapped[1]
             /\ ~f.exceptionApproved
          THEN Rejected("belowMinimum")
     ELSE [ok |-> TRUE, why |-> "", mappedVat |-> mappedVat]

\* (mutant) a row that was already sent back to Closing is refused as such
ValidateOncePerRow(f) ==
  IF f.dealStatus = "Closing" THEN Rejected("notReady")
  ELSE IF PresenceMissing(f) THEN Rejected("missing")
  ELSE IF ConfirmedOfferMissing(f) THEN Rejected("unconfirmed")
  ELSE ValidateVat(f)

\* (mutant) the confirmed-offer guard left out
ValidateNoGuard(f) ==
  IF PresenceMissing(f) THEN Rejected("missing") ELSE ValidateVat(f)

\* server.js 355-475: the validation steps, in order; "why" names the step
\* that rejected ("" when all pass)
Validate(f) ==
  IF PresenceMissing(f) THEN Rejected("missing")
  ELSE IF ConfirmedOfferMissing(f) THEN Rejected("unconfirmed")
  ELSE ValidateVat(f)

\* airtable.js 251-255: readExternalRecord, the whole row
readExternalRecord(recordId) ==
  [offerStatus     |-> ext[recordId].offerStatus,
   confirmedPrice  |-> ext[recordId].confirmedPrice,
   confirmedSeller |-> ext[recordId].confirmedSeller,
   confirmedInv    |-> ext[recordId].confirmedInv,
   offerVatType    |-> IF ext[recordId].offerVatType = <<>> THEN Nul
                       ELSE Str(ext[recordId].offerVatType),
   dealStatus      |-> ext[recordId].dealStatus] @@ opIn[recordId]

\* airtable.js 257-268: writeExternalFeedback, the PATCH applied to the row
writeExternalFeedback(rec, feedback, dealStatusName) ==
  [rec EXCEPT !.feedback = feedback,
              !.dealStatus = IF dealStatusName # "" THEN dealStatusName ELSE @]

\* airtable.js 276-278: the quantity decrementInventoryQuantity writes
decrementedQuantity(cur, amount) ==
  LET c == IF cur = <<>> THEN 0 ELSE cur[1]
      n == c - amount
  IN IF n > 0 THEN n ELSE 0

\* airtable.js 306-331: findInventoryBySellerAndStock, the rows the filter keeps
findInventoryBySellerAndStock(sellerId, stockLevelId) ==
  {u \in Units :
     /\ sellerId # "" => getFirstLinkedId(invSeller[u]) = sellerId
     /\ stockLevelId # "" => getFirstLinkedId(invStock[u]) = stockLevelId}

\* (mutant) the Sales record keeps the VAT type recorded at confirmation
SaleFieldsRecordedVat(ex, overrideVatType) ==
  [sku    |-> getFirstLinkedId(ex.sku),
   seller |-> getFirstLinkedId(ex.confirmedSeller),
   price  |-> IF ex.confirmedPrice # <<>> THEN <<round2(ex.confirmedPrice[1])>> ELSE <<>>,
   vatType |-> toText(ex.offerVatType)]

\* airtable.js 385-406: the fields of the Sales record
SaleFields(ex, overrideVatType) ==
  [sku    |-> getFirstLinkedId(ex.sku),
   seller |-> getFirstLinkedId(ex.confirmedSeller),
   price  |-> IF ex.confirmedPrice # <<>> THEN <<round2(ex.confirmedPrice[1])>> ELSE <<>>,
   vatType |-> IF overrideVatType # <<>> THEN overrideVatType ELSE toText(ex.offerVatType)]

\* ---------------------------------------------- finalize handler instances
NoFeedback == [kind |-> "", salesId |-> 0]

IdleFin == [pc |-> "unused", recordId |-> "", f |-> <<>>, mappedVat |-> <<>>,
            rejectedBy |-> "",
            invId |-> "", cur |-> <<>>, salesId |-> 0,
            fb |-> NoFeedback, dealStatusName |-> "", status |-> 0, response |-> 0]

MaxOf(S) == CHOOSE x \in S : \A y \in S : y <= x
FinIds == 1..MaxOf({MaxFinalize, MaxRaceCalls, MaxOverlap})
FinStarted == {k \in FinIds : fh[k].pc # "unused"}

finUnchanged == <<storeVars, sendVars, offerLog, msgs, pending, clicks, ch>>

\* the reply path shared by every exit: write feedback, then respond
Reply(k, kind, dealStatusName, status) ==
  [fh EXCEPT ![k].pc = "feedback",
             ![k].fb = [kind |-> kind, salesId |-> fh[k].salesId],
             ![k].dealStatusName = dealStatusName, ![k].status = status]

\* server.js 348-353: the call arrives
Trigger(recordId, limit) ==
  /\ Cardinality(FinStarted) < limit
  /\ LET k == Cardinality(FinStarted) + 1 IN
     fh' = [fh EXCEPT ![k] =
              IF recordId = ""
              THEN [IdleFin EXCEPT !.pc = "done", !.response = 400]
              ELSE [IdleFin EXCEPT !.pc = "read", !.recordId = recordId]]
  /\ UNCHANGED <<ext, finUnchanged, invQty, sales, affiliates, faults>>

\* (mutant) a rejection that writes its feedback but does not return
ReadStepNoReturn(k, ok) ==
  /\ fh[k].pc = "read"
  /\ Outcome(ok)
  /\ IF ok
     THEN LET f == readExternalRecord(fh[k].recordId)
              v == Validate(f)
          IN fh' = [fh EXCEPT ![k].f = f, ![k].mappedVat = v.mappedVat,
                              ![k].rejectedBy = v.why,
                              ![k].pc = IF getFirstLinkedId(f.confirmedInv) # ""
                                        THEN "resolveInv" ELSE "findInv"]
     ELSE fh' = Reply(k, "serverError", "Closing", 500)
  /\ UNCHANGED <<ext, finUnchanged, invQty, sales, affiliates>>

\* server.js 353-475: read the row and validate it
ReadStep(k, ok) ==
  /\ fh[k].pc = "read"
  /\ Outcome(ok)
  /\ IF ok
     THEN LET f == readExternalRecord(fh[k].recordId)
              v == Validate(f)
              withF == [fh EXCEPT ![k].f = f, ![k].mappedVat = v.mappedVat,
                                  ![k].rejectedBy = v.why]
          IN IF ~v.ok
             THEN fh' = [withF EXCEPT ![k].pc = "feedback",
                                      ![k].fb = [kind |-> v.why, salesId |-> 0],
                                      ![k].dealStatusName = "Closing", ![k].status = 422]
             ELSE \* createSalesFromExternal begins: airtable.js 340-344
                  fh' = [withF EXCEPT ![k].pc =
                           IF getFirstLinkedId(f.confirmedInv) # "" THEN "resolveInv"
                           ELSE "findInv"]
     ELSE fh' = Reply(k, "serverError", "Closing", 500)
  /\ UNCHANGED <<ext, finUnchanged, invQty, sales, affiliates>>

\* airtable.js 344-350, 293-303: tryGetInventoryById of the confirmed unit;
\* a unit that no longer exists and a failed GET both give null
ResolveInvStep(k, ok) ==
  /\ fh[k].pc = "resolveInv"
  /\ Outcome(ok)
  /\ fh' = IF ok /\ getFirstLinkedId(fh[k].f.confirmedInv) \in Units
           THEN [fh EXCEPT ![k].pc = "postSale",
                           ![k].invId = getFirstLinkedId(fh[k].f.confirmedInv)]
           ELSE [fh EXCEPT ![k].pc = "findInv"]
  /\ UNCHANGED <<ext, finUnchanged, invQty, sales, affiliates>>

\* airtable.js 352-371: fall back to a search by seller + stock level
FindInvStep(k, ok, u) ==
  /\ fh[k].pc = "findInv"
  /\ Outcome(ok)
  /\ LET sellerId == getFirstLinkedId(fh[k].f.confirmedSeller)
         stockLevelId == getFirstLinkedId(fh[k].f.stockLink)
         found == findInventoryBySellerAndStock(sellerId, stockLevelId)
     IN IF sellerId = "" /\ stockLevelId = ""
        THEN /\ u = "" /\ ok
             /\ fh' = [fh EXCEPT ![k].pc = "postSale", ![k].invId = ""]
        ELSE IF ok
        THEN /\ IF found = {} THEN u = "" ELSE u \in found
             /\ fh' = [fh EXCEPT ![k].pc = "postSale", ![k].invId = u]
        ELSE /\ u = ""
             /\ fh' = Reply(k, "salesFailed", "Closing", 500)
  /\ UNCHANGED <<ext, finUnchanged, invQty, sales, affiliates>>

\* (mutant) the decrement follows the Sale request whether or not it succeeded
PostSaleStepDecrementsAnyway(k, ok) ==
  /\ fh[k].pc = "postSale"
  /\ Outcome(ok)
  /\ sales' = IF ok
              THEN sales \cup {SaleFields(fh[k].f, fh[k].mappedVat) @@
                               [id |-> k, order |-> fh[k].recordId, unit |-> fh[k].invId]}
              ELSE sales
  /\ fh' = [fh EXCEPT ![k].salesId = IF ok THEN k ELSE 0,
                      ![k].pc = IF fh[k].invId # "" THEN "decGet" ELSE "affiliate"]
  /\ UNCHANGED <<ext, finUnchanged, invQty, affiliates>>

\* airtable.js 408-426, server.js 478-487: POST the Sales record (structured
\* encoding, then plain); a success is followed by the decrement
PostSaleStep(k, ok) ==
  /\ fh[k].pc = "postSale"
  /\ Outcome(ok)
  /\ IF ok
     THEN /\ sales' = sales \cup
                        {SaleFields(fh[k].f, fh[k].mappedVat) @@
                         [id |-> k, order |-> fh[k].recordId, unit |-> fh[k].invId]}
          /\ fh' = [fh EXCEPT ![k].salesId = k,
                              ![k].pc = IF fh[k].invId # "" THEN "decGet" ELSE "affiliate"]
     ELSE /\ sales' = sales
          /\ fh' = Reply(k, "salesFailed", "Closing", 500)
  /\ UNCHANGED <<ext, finUnchanged, invQty, affiliates>>

\* airtable.js 274-276: decrementInventoryQuantity reads the quantity
DecGetStep(k, ok) ==
  /\ fh[k].pc = "decGet"
  /\ Outcome(ok)
  /\ fh' = IF ok
           THEN [fh EXCEPT ![k].pc = "decPatch", ![k].cur = invQty[fh[k].invId]]
           ELSE [fh EXCEPT ![k].pc = "affiliate"]
  /\ UNCHANGED <<ext, finUnchanged, invQty, sales, affiliates>>

\* airtable.js 278-288: ... and writes it back, lowered by one
DecPatchStep(k, ok) ==
  /\ fh[k].pc = "decPatch"
  /\ Outcome(ok)
  /\ invQty' = IF ok
               THEN [invQty EXCEPT ![fh[k].invId] = <<decrementedQuantity(fh[k].cur, 1)>>]
               ELSE invQty
  /\ fh' = [fh EXCEPT ![k].pc = "affiliate", ![k].cur = <<>>]
  /\ UNCHANGED <<ext, finUnchanged, sales, affiliates>>

\* airtable.js 430-471: both POST attempts of createAffiliateFromExternal are
\* refused when the row's Linked Affiliate names a record that does not exist
AffiliateAccepted(f) ==
  getFirstLinkedId(f.linkedAffiliate) = "" \/ getFirstLinkedId(f.linkedAffiliate) \in AffiliateRecords

\* (mutant) a failed affiliate record takes the Sale back
AffiliateStepRollback(k, ok) ==
  /\ fh[k].pc = "affiliate"
  /\ Outcome(ok)
  /\ IF ok /\ AffiliateAccepted(fh[k].f)
     THEN /\ affiliates' = affiliates \cup
                             {[sale |-> fh[k].salesId, order |-> fh[k].recordId,
                               price |-> <<round2(fh[k].f.finalDealPrice[1])>>]}
          /\ sales' = sales
          /\ fh' = Reply(k, "success", "Deal Processed", 200)
     ELSE /\ affiliates' = affiliates
          /\ sales' = {x \in sales : x.id # k}
          /\ fh' = Reply(k, "affiliateFailed", "Closing", 500)
  /\ UNCHANGED <<ext, finUnchanged, invQty>>

\* server.js 489-504, airtable.js 430-471: createAffiliateFromExternal
AffiliateStep(k, ok) ==
  /\ fh[k].pc = "affiliate"
  /\ Outcome(ok)
  /\ IF ok /\ AffiliateAccepted(fh[k].f)
     THEN /\ affiliates' = affiliates \cup
                             {[sale |-> fh[k].salesId, order |-> fh[k].recordId,
                               price |-> <<round2(fh[k].f.finalDealPrice[1])>>]}
          /\ fh' = Reply(k, "success", "Deal Processed", 200)
     ELSE /\ affiliates' = affiliates
          /\ fh' = Reply(k, "affiliateFailed", "Closing", 500)
  /\ UNCHANGED <<ext, finUnchanged, invQty, sales>>

\* (mutant) every feedback write marks the order Deal Processed
FeedbackStepAlwaysProcessed(k, ok) ==
  /\ fh[k].pc = "feedback"
  /\ ~ok => (faults < MaxFaults \/ fh[k].fb.kind = "serverError")
  /\ faults' = IF ok THEN faults ELSE faults + 1
  /\ IF ok
     THEN /\ ext' = [ext EXCEPT ![fh[k].recordId] =
                       writeExternalFeedback(@, fh[k].fb, "Deal Processed")]
          /\ fh' = [fh EXCEPT ![k].pc = "done", ![k].response = fh[k].status]
     ELSE /\ ext' = ext
          /\ fh' = IF fh[k].fb.kind = "serverError"
                   THEN [fh EXCEPT ![k].pc = "done", ![k].response = 500]
                   ELSE Reply(k, "serverError", "Closing", 500)
  /\ UNCHANGED <<finUnchanged, invQty, sales, affiliates>>

\* every writeExternalFeedback of the route, and the response that follows;
\* a failed write inside the route lands in the outer catch (server.js
\* 508-517), whose own write failure is swallowed.  The write in the catch
\* follows a collaborator failure and may fail with it (the store is down),
\* whatever is left of the failure budget.
FeedbackStep(k, ok) ==
  /\ fh[k].pc = "feedback"
  /\ ~ok => (faults < MaxFaults \/ fh[k].fb.kind = "serverError")
  /\ faults' = IF ok THEN faults ELSE faults + 1
  /\ IF ok
     THEN /\ ext' = [ext EXCEPT ![fh[k].recordId] =
                       writeExternalFeedback(@, fh[k].fb, fh[k].dealStatusName)]
          /\ fh' = [fh EXCEPT ![k].pc = "done", ![k].response = fh[k].status]
     ELSE /\ ext' = ext
          /\ fh' = IF fh[k].fb.kind = "serverError"
                   THEN [fh EXCEPT ![k].pc = "done", ![k].response = 500]
                   ELSE Reply(k, "serverError", "Closing", 500)
  /\ UNCHANGED <<finUnchanged, invQty, sales, affiliates>>

\* ------------------------------------------- fan-out: pure helpers
\* JavaScript numbers that are not whole mils are kept as exact fractions
\* <<numerator, denominator>> (denominator > 0); amounts are in mils.
RatOf(n) == <<n, 1>>
RatLess(a, b) == a[1] * b[2] < b[1] * a[2]
RatEq(a, b) == a[1] * b[2] = b[1] * a[2]
RatMul(a, b) == <<a[1] * b[1], a[2] * b[2]>>
RatDiv(a, b) == <<a[1] * b[2], a[2] * b[1]>>
RatPlusOne(a) == <<a[1] + a[2], a[2]>>

\* Number(x.toFixed(2)) of an amount >= 0, in whole mils
toFixed2(a) == ((2 * a[1] + 10 * a[2]) \div (20 * a[2])) * 10

\* server.js 42-49: toNumber of a number (<<r>>) or of null/undefined (<<>>)
toNumber(v) == v

\* server.js 50-54: toPct01
toPct01(p) ==
  LET n == toNumber(p) IN
  IF n = <<>> THEN <<>>
  ELSE IF RatLess(RatOf(1), n[1]) THEN <<RatDiv(n[1], RatOf(100))>> ELSE n

\* server.js 85: .replace(/\s+/g, "").replace(/-/g, "")
stripSpacesAndHyphens(s) == SelectSeq(s, LAMBDA c : c \notin {" ", "-"})

Pct21 == <<RatOf(21)>>
Frac021 == RatDiv(RatOf(21), RatOf(100))

\* (mutant) the first matching token in VAT0, VAT21, MARGIN order
regimeBranchVat0First(vt, treatAsNL) ==
  IF includes(vt, T_VAT0) /\ treatAsNL THEN "VAT0_NL"
  ELSE IF includes(vt, T_VAT0) THEN "VAT0"
  ELSE IF includes(vt, T_VAT21) THEN "VAT21"
  ELSE IF includes(vt, T_MARGIN) THEN "MARGIN"
  ELSE "DEFAULT"

\* server.js 92, 105, 118, 132, 146: which branch of the if-chain is taken
regimeBranch(vt, treatAsNL) ==
  IF includes(vt, T_MARGIN) THEN "MARGIN"
  ELSE IF includes(vt, T_VAT21) THEN "VAT21"
  ELSE IF includes(vt, T_VAT0) /\ treatAsNL THEN "VAT0_NL"
  ELSE IF includes(vt, T_VAT0) THEN "VAT0"
  ELSE "DEFAULT"

\* (mutant) the seller's price compared as entered
sellerBasisNLRaw(sellerSuggestedRaw, sellerPct01) == sellerSuggestedRaw

\* server.js 119-120: the Netherlands VAT0 seller's price, VAT added
sellerBasisNL(sellerSuggestedRaw, sellerPct01) ==
  RatMul(sellerSuggestedRaw, RatPlusOne(sellerPct01))

\* (mutant) the house's price compared VAT-inclusive
oursBasisVat0Incl(ourOfferIncl, sellerPct01) == ourOfferIncl

\* server.js 133-135: the house's price, VAT taken off
oursBasisVat0(ourOfferIncl, sellerPct01) ==
  RatDiv(ourOfferIncl, RatPlusOne(sellerPct01))

\* (mutant) equal bases make an offer
modeOfNonStrict(basisOurs, basisSeller) ==
  IF RatLess(basisSeller, basisOurs) THEN "confirm" ELSE "offer"

\* server.js 160: mode
modeOf(basisOurs, basisSeller) ==
  IF RatLess(basisOurs, basisSeller) THEN "offer" ELSE "confirm"

\* server.js 82-162: decideModeAndDisplay
decideModeAndDisplay(in) ==
  LET vt == stripSpacesAndHyphens(toUpperCase(in.vatTypeRaw))
      pctOrDefault == IF in.sellerVatPct = <<>> THEN Pct21 ELSE in.sellerVatPct
      sellerPct01 == IF toPct01(pctOrDefault) = <<>> THEN Frac021 ELSE toPct01(pctOrDefault)[1]
      treatAsNL == isNL(in.sellerCountry)
      raw == RatOf(in.sellerSuggestedRaw)
      incl == RatOf(in.ourOfferIncl)
      taken == regimeBranch(vt, treatAsNL)
      basisSeller == IF taken = "VAT0_NL" THEN sellerBasisNL(raw, sellerPct01) ELSE raw
      basisOurs == IF taken = "VAT0" THEN oursBasisVat0(incl, sellerPct01) ELSE incl
  IN [mode |-> modeOf(basisOurs, basisSeller),
      yourAmount |-> basisSeller, ourAmount |-> basisOurs,
      vatTagYour |-> CASE taken = "MARGIN" -> "(Margin)" [] taken = "VAT0" -> "(VAT 0%)"
                       [] OTHER -> "(VAT 21%)",
      vatTagOur |-> CASE taken = "MARGIN" -> "(Margin)" [] taken = "VAT0" -> "(VAT 0%)"
                      [] OTHER -> "(VAT 21%)",
      confirmedVatType |-> CASE taken = "MARGIN" -> L_Margin [] taken = "VAT0" -> T_VAT0
                             [] OTHER -> T_VAT21,
      basisOurs |-> basisOurs, basisSeller |-> basisSeller]

\* (mutant) the house's amount on every button
buttonPriceOurs(mode, display) == toFixed2(display.ourAmount)

\* server.js 220, 234, 250, 261: the price put on the button
buttonPrice(mode, display) ==
  IF mode = "offer" THEN toFixed2(display.ourAmount) ELSE toFixed2(display.yourAmount)

\* ------------------------------------------- fan-out handler (one call)
\* server.js 201: Array.isArray(p?.sellers) ? p.sellers : []
sellersOf(field) == IF field.kind = "arr" THEN field.v ELSE <<>>

\* server.js 211-213: both prices are finite numbers (<<>> is NaN)
pricesFinite(s) == s.sellerSuggestedRaw # <<>> /\ s.baseOfferIncl # <<>>

\* server.js 207, 213: the next seller of the loop that is not skipped, from
\* position i on; 0 when the loop is over
RECURSIVE nextSeller(_, _)
nextSeller(sellers, i) ==
  IF i > Len(sellers) THEN 0
  ELSE IF pricesFinite(sellers[i]) THEN i
  ELSE nextSeller(sellers, i + 1)

\* server.js 215-217: the decision for the seller at position i
decisionFor(s) ==
  decideModeAndDisplay([vatTypeRaw |-> s.sellerVatType, sellerCountry |-> s.sellerCountry,
                        sellerVatPct |-> s.sellerVatRatePct,
                        sellerSuggestedRaw |-> s.sellerSuggestedRaw[1],
                        ourOfferIncl |-> s.baseOfferIncl[1]])

\* the loop moves on to position i, or ends with res.json (server.js 278)
loopAt(f, i) ==
  IF nextSeller(f.sellers, i) = 0
  THEN [f EXCEPT !.pc = "done", !.i = 0, !.response = 200]
  ELSE [f EXCEPT !.pc = "send", !.i = nextSeller(f.sellers, i)]

fanoutUnchanged == <<ext, storeVars, invQty, offerLog, msgs, pending, clicks, ch, fh, sales, affiliates, dec, wr>>

\* (mutant) a request that is processed whatever it lacks
ExternalOffersUnchecked(orderRecId, sellersField) ==
  /\ fo.pc = "idle"
  /\ fo' = loopAt([fo EXCEPT !.orderRecId = orderRecId, !.sellers = sellersOf(sellersField)], 1)
  /\ UNCHANGED <<fanoutUnchanged, sentMsgs, logRows, faults>>

\* server.js 194-206: the request arrives
ExternalOffers(orderRecId, sellersField) ==
  /\ fo.pc = "idle"
  /\ LET sellers == sellersOf(sellersField)
         got == [fo EXCEPT !.orderRecId = orderRecId, !.sellers = sellers]
     IN fo' = IF orderRecId = "" \/ Len(sellers) = 0
              THEN [got EXCEPT !.pc = "done", !.response = 400]
              ELSE loopAt(got, 1)
  /\ UNCHANGED <<fanoutUnchanged, sentMsgs, logRows, faults>>

\* server.js 219-236, 249-263, 279-282: the message is posted (channel lookup
\* and POST); an error leaves the loop for the catch
SendStep(ok) ==
  /\ fo.pc = "send"
  /\ Outcome(ok)
  /\ LET s == fo.sellers[fo.i]
         d == decisionFor(s)
         tried == [fo EXCEPT !.attempted = @ \cup {fo.i}]
     IN IF ok
        THEN /\ sentMsgs' = Append(sentMsgs,
                              [orderRecId |-> fo.orderRecId, sellerId |-> s.sellerId,
                               inventoryRecordId |-> s.inventoryRecordId,
                               kind |-> d.mode, price |-> buttonPrice(d.mode, d),
                               vatLabel |-> d.confirmedVatType, at |-> fo.i])
             /\ fo' = [tried EXCEPT !.pc = "log"]
        ELSE /\ sentMsgs' = sentMsgs
             /\ fo' = [tried EXCEPT !.pc = "done", !.response = 500]
  /\ UNCHANGED <<fanoutUnchanged, logRows>>

\* (mutant) a failed log write ends the request
LogStepFailFast(ok) ==
  /\ fo.pc = "log"
  /\ Outcome(ok)
  /\ LET messageId == Len(sentMsgs)
         m == sentMsgs[messageId]
         counted == [fo EXCEPT !.logTried = @ \cup {messageId},
                               !.results = Append(@, [sellerId |-> m.sellerId,
                                                      messageId |-> messageId, kind |-> m.kind,
                                                      confirmedVatType |-> m.vatLabel])]
     IN IF ok
        THEN /\ logRows' = logRows \cup
                             {[orderRecId |-> m.orderRecId, sellerId |-> m.sellerId,
                               inventoryRecordId |-> m.inventoryRecordId,
                               messageId |-> messageId, offerPrice |-> round2(m.price)]}
             /\ fo' = loopAt(counted, fo.i + 1)
        ELSE /\ logRows' = logRows
             /\ fo' = [fo EXCEPT !.pc = "done", !.response = 500]
  /\ UNCHANGED <<fanoutUnchanged, sentMsgs>>

\* server.js 238-247, 265-274, airtable.js 157-173: logOfferMessage, whose
\* error is swallowed, then the message is counted and the loop goes on
LogStep(ok) ==
  /\ fo.pc = "log"
  /\ Outcome(ok)
  /\ LET messageId == Len(sentMsgs)
         m == sentMsgs[messageId]
         counted == [fo EXCEPT !.logTried = @ \cup {messageId},
                               !.results = Append(@, [sellerId |-> m.sellerId,
                                                      messageId |-> messageId, kind |-> m.kind,
                                                      confirmedVatType |-> m.vatLabel])]
     IN /\ logRows' = IF ok
                      THEN logRows \cup
                             {[orderRecId |-> m.orderRecId, sellerId |-> m.sellerId,
                               inventoryRecordId |-> m.inventoryRecordId,
                               messageId |-> messageId, offerPrice |-> round2(m.price)]}
                      ELSE logRows
        /\ fo' = loopAt(counted, fo.i + 1)
  /\ UNCHANGED <<fanoutUnchanged, sentMsgs>>

\* one application of decideModeAndDisplay
Decide ==
  /\ dec.in # <<>> /\ dec.out = <<>>
  /\ dec' = [dec EXCEPT !.out = <<decideModeAndDisplay(dec.in[1])>>]
  /\ UNCHANGED <<ext, storeVars, invQty, offerLog, msgs, pending, clicks, ch, fh, sales, affiliates, fo, sentMsgs, logRows, wr, faults>>

\* one application of toPct01
Normalise ==
  /\ dec.in # <<>> /\ dec.out = <<>>
  /\ dec' = [dec EXCEPT !.out = <<toPct01(dec.in[1])>>]
  /\ UNCHANGED <<ext, storeVars, invQty, offerLog, msgs, pending, clicks, ch, fh, sales, affiliates, fo, sentMsgs, logRows, wr, faults>>

\* ------------------------- writes of records with single-choice fields
\* setExternalConfirmation (airtable.js 232-246), writeExternalFeedback
\* (262-267), createSalesFromExternal (408-426) and
\* createAffiliateFromExternal (460-470) share one shape: a request with the
\* single-choice fields as {name: ...} inside try, and in the catch a second
\* request with those fields as plain strings, whose error is not caught.
WriteOps == {"setExternalConfirmation", "writeExternalFeedback",
             "createSalesFromExternal", "createAffiliateFromExternal"}

\* the table takes a request unless it carries a single-choice field in an
\* encoding the base does not accept
tableTakes(accepts, hasChoice, enc) == ~hasChoice \/ enc \in accepts

writeUnchanged == <<ext, storeVars, invQty, offerLog, msgs, pending, clicks, ch, fh, sales, affiliates, fo, sentMsgs, logRows, dec>>

\* the operation is called; hasChoice: the payload carries a single-choice
\* field (airtable.js 234-235, 261, 405, 453)
StartWrite(op, hasChoice) ==
  /\ wr.pc = "idle"
  /\ wr' = [wr EXCEPT !.pc = "first", !.op = op, !.hasChoice = hasChoice]
  /\ UNCHANGED <<writeUnchanged, faults>>

\* (mutant) no second request: the first error goes to the caller
FirstRequestNoFallback(ok) ==
  /\ wr.pc = "first"
  /\ Outcome(ok)
  /\ LET taken == ok /\ tableTakes(wr.accepts, wr.hasChoice, "structured") IN
     wr' = [wr EXCEPT !.sent = Append(@, [enc |-> "structured", taken |-> taken]),
                      !.pc = "done",
                      !.result = IF taken THEN "returned" ELSE "threw"]
  /\ UNCHANGED writeUnchanged

\* the request inside try (airtable.js 236, 263, 410, 461)
FirstRequest(ok) ==
  /\ wr.pc = "first"
  /\ Outcome(ok)
  /\ LET taken == ok /\ tableTakes(wr.accepts, wr.hasChoice, "structured") IN
     wr' = [wr EXCEPT !.sent = Append(@, [enc |-> "structured", taken |-> taken]),
                      !.pc = IF taken THEN "done" ELSE "second",
                      !.result = IF taken THEN "returned" ELSE ""]
  /\ UNCHANGED writeUnchanged

\* the request inside catch (airtable.js 245, 266, 420, 468)
SecondRequest(ok) ==
  /\ wr.pc = "second"
  /\ Outcome(ok)
  /\ LET taken == ok /\ tableTakes(wr.accepts, wr.hasChoice, "plain") IN
     wr' = [wr EXCEPT !.sent = Append(@, [enc |-> "plain", taken |-> taken]),
                      !.pc = "done",
                      !.result = IF taken THEN "returned" ELSE "threw"]
  /\ UNCHANGED writeUnchanged

\* ------------------------------------------------------------------ Init
FreshMsgs == [m \in Msgs |-> [disabled |-> FALSE, note |-> [kind |-> "sent", who |-> ""]]]

IdleFanout == [pc |-> "idle", orderRecId |-> "", sellers |-> <<>>, i |-> 0,
               attempted |-> {}, logTried |-> {}, results |-> <<>>, response |-> 0]
IdleDecide == [in |-> <<>>, out |-> <<>>]
IdleWrite == [pc |-> "idle", op |-> "", hasChoice |-> FALSE, accepts |-> {},
              sent |-> <<>>, result |-> ""]

InitCommon ==
  /\ fo = IdleFanout
  /\ sentMsgs = <<>>
  /\ logRows = {}
  /\ dec = IdleDecide
  /\ wr = IdleWrite
  /\ pending = {}
  /\ clicks = 0
  /\ sales = {}
  /\ affiliates = {}
  /\ faults = 0
  /\ invStock = [u \in Units |-> <<"st1">>]

\* Approval: the fan-out has sent m1, m2 (order o1) and m3 (order o2); the log
\* write of m2 may have failed (logOfferMessage swallows the error).
Init ==
  /\ InitCommon
  /\ ext = [o \in Orders |-> BlankExt]
  /\ opIn = [o \in Orders |-> <<>>]
  /\ invSeller \in {[u1 |-> <<"recS1">>, u2 |-> <<"recS2">>],
                    [u1 |-> <<"recS1">>, u2 |-> <<>>]}
  /\ invQty = [u \in Units |-> <<2>>]
  /\ offerLog \in {Msgs, Msgs \ {"m2"}}
  /\ msgs = FreshMsgs
  /\ ch = [h \in ClickIds |-> IdleClick]
  /\ fh = [k \in FinIds |-> IdleFin]

Next ==
  \/ \E m \in Msgs, a \in {"confirm_ext", "deny_ext"} : UserClick(m, a)
  \/ \E e \in pending : Dispatch(e)
  \/ \E h \in ClickIds, ok \in BOOLEAN : DenyStep(h, ok)
  \/ \E h \in ClickIds, ok \in BOOLEAN : ResolveStep(h, ok)
  \/ \E h \in ClickIds, ok \in BOOLEAN : WriteStep(h, ok)
  \/ \E h \in ClickIds, ok \in BOOLEAN : DisableSelfStep(h, ok)
  \/ \E h \in ClickIds, ok \in BOOLEAN : ListStep(h, ok)
  \/ \E h \in ClickIds, m \in Msgs, ok \in BOOLEAN : SiblingStep(h, m, ok)

Spec == Init /\ [][Next]_vars

\* Approval with three offer messages out for order o1, sellers confirming
InitFanout ==
  /\ InitCommon
  /\ ext = [o \in Orders |-> BlankExt]
  /\ opIn = [o \in Orders |-> <<>>]
  /\ invSeller = [u1 |-> <<"recS1">>, u2 |-> <<"recS2">>]
  /\ invQty = [u \in Units |-> <<2>>]
  /\ offerLog \in {FanoutMsgs, FanoutMsgs \ {"m2"}}
  /\ msgs = [m \in FanoutMsgs |-> [disabled |-> FALSE, note |-> [kind |-> "sent", who |-> ""]]]
  /\ ch = [h \in ClickIds |-> IdleClick]
  /\ fh = [k \in FinIds |-> IdleFin]

NextFanout ==
  \/ \E m \in FanoutMsgs \ {"m3"} : UserClick(m, "confirm_ext")
  \/ \E e \in pending : Dispatch(e)
  \/ \E h \in ClickIds, ok \in BOOLEAN : ResolveStep(h, ok)
  \/ \E h \in ClickIds, ok \in BOOLEAN : WriteStep(h, ok)
  \/ \E h \in ClickIds, ok \in BOOLEAN : DisableSelfStep(h, ok)
  \/ \E h \in ClickIds, ok \in BOOLEAN : ListStep(h, ok)
  \/ \E h \in ClickIds, m \in FanoutMsgs, ok \in BOOLEAN : SiblingStep(h, m, ok)

SpecFanout == InitFanout /\ [][NextFanout]_vars

\* ------------------------------------------------------- finalize: Init
\* a row after the terms carried by message m were written to it and an
\* operator moved the deal to "Deal Closed" (the state finalize is triggered from)
ConfirmedBy(m) ==
  LET b == ButtonOf(m) IN
  [setExternalConfirmation(BlankExt, b.offerPrice,
                           IF b.inventoryRecordId = "u1" THEN "recS1" ELSE "recS2",
                           "Confirmed", b.vatLabel, "Closing", b.inventoryRecordId)
     EXCEPT !.dealStatus = "Deal Closed"]
Unconfirmed == [BlankExt EXCEPT !.dealStatus = "Deal Closed"]

C_DE == <<"D","E">>
C_nl == <<" ","n","l"," ">>
VatId == <<"D","E","1">>

BaseIn ==
  [finalDealPrice |-> <<100000>>, buyer |-> <<"recB1">>, shippingLabel |-> <<"label.pdf">>,
   sku |-> <<"recSKU1">>, sellingVatType |-> Str(T_VAT21),
   buyerCountry |-> Arr(<<C_DE>>), buyerVatId |-> Arr(<<VatId>>),
   minVat0 |-> <<95000>>, minVat21 |-> <<100000>>, minMargin |-> <<100000>>,
   exceptionApproved |-> FALSE, stockLink |-> <<"st1">>,
   linkedAffiliate |-> <<"recA1">>]

\* what operators may have entered on the row
FinInputs ==
  {[BaseIn EXCEPT !.finalDealPrice = p, !.buyer = b, !.shippingLabel = l,
                  !.sellingVatType = s, !.buyerCountry = c, !.buyerVatId = v,
                  !.exceptionApproved = x] :
     p \in {<<>>, <<99990>>, <<100000>>},
     b \in {<<>>, <<"recB1">>},
     l \in {<<>>, <<"label.pdf">>},
     s \in {Nul, Str(T_VAT21), Str(T_VAT0), Str(L_Margin), Str(L_Private),
            Str(<<"v","a","t"," ","2","1","%">>), Str(<<"O","S","S">>)},
     c \in {Arr(<<C_nl>>), Arr(<<C_DE>>)},
     v \in {Arr(<<>>), Arr(<<VatId>>)},
     x \in BOOLEAN}

InitStore ==
  /\ InitCommon
  /\ ch = [h \in ClickIds |-> IdleClick]
  /\ fh = [k \in FinIds |-> IdleFin]
  /\ invSeller = [u1 |-> <<"recS1">>, u2 |-> <<"recS2">>]
  /\ offerLog = Msgs
  /\ msgs = [m \in Msgs |-> [disabled |-> TRUE, note |-> [kind |-> "closedOther", who |-> ""]]]

\* calls for order o1, whose row carries any operator input
InitFin ==
  /\ InitStore
  /\ ext \in {[o1 |-> c, o2 |-> ConfirmedBy("m3")] :
                c \in {Unconfirmed, ConfirmedBy("m1"), ConfirmedBy("m2"), ConfirmedBy("m3")}}
  /\ opIn \in {[o1 |-> i, o2 |-> BaseIn] : i \in FinInputs}
  /\ invQty = [u1 |-> <<2>>, u2 |-> <<>>]

FinSteps ==
  \/ \E k \in FinIds, ok \in BOOLEAN : ReadStep(k, ok)
  \/ \E k \in FinIds, ok \in BOOLEAN : ResolveInvStep(k, ok)
  \/ \E k \in FinIds, ok \in BOOLEAN, u \in Units \cup {""} : FindInvStep(k, ok, u)
  \/ \E k \in FinIds, ok \in BOOLEAN : PostSaleStep(k, ok)
  \/ \E k \in FinIds, ok \in BOOLEAN : DecGetStep(k, ok)
  \/ \E k \in FinIds, ok \in BOOLEAN : DecPatchStep(k, ok)
  \/ \E k \in FinIds, ok \in BOOLEAN : AffiliateStep(k, ok)
  \/ \E k \in FinIds, ok \in BOOLEAN : FeedbackStep(k, ok)

NextFin ==
  \/ \E o \in {"o1", ""} : Trigger(o, MaxFinalize)
  \/ FinSteps

SpecFin == InitFin /\ [][NextFin]_vars

\* concurrent calls on two valid orders confirmed on the same inventory unit
InitRace ==
  /\ InitStore
  /\ ext = [o1 |-> ConfirmedBy("m1"), o2 |-> ConfirmedBy("m3")]
  /\ opIn \in {[o1 |-> i, o2 |-> BaseIn] :
                 i \in {BaseIn, [BaseIn EXCEPT !.linkedAffiliate = <<"recGone">>]}}
  /\ invQty = [u1 |-> <<2>>, u2 |-> <<>>]

NextRace ==
  \/ \E o \in Orders : Trigger(o, MaxRaceCalls)
  \/ FinSteps

SpecRace == InitRace /\ [][NextRace]_vars

NextOverlap ==
  \/ \E o \in Orders : Trigger(o, MaxOverlap)
  \/ FinSteps

SpecOverlap == InitRace /\ [][NextOverlap]_vars

\* one call on a valid order whose confirmed unit may have been deleted since
\* the confirmation, and whose stock-level link may be empty or stale
InitInv ==
  /\ InitStore
  /\ ext \in {[o1 |-> [ConfirmedBy("m1") EXCEPT !.confirmedInv = c], o2 |-> ConfirmedBy("m3")] :
                c \in {<<"u1">>, <<"uGone">>, <<>>}}
  /\ opIn \in {[o1 |-> [BaseIn EXCEPT !.stockLink = l], o2 |-> BaseIn] :
                 l \in {<<"st1">>, <<"stNone">>, <<>>}}
  /\ invQty \in {[u1 |-> q, u2 |-> <<>>] : q \in {<<2>>, <<0>>}}

NextInv ==
  \/ Trigger("o1", MaxFinalize)
  \/ FinSteps

SpecInv == InitInv /\ [][NextInv]_vars

\* repeated calls on one order whose row the operators leave as it is
RetryInputs ==
  {BaseIn,
   [BaseIn EXCEPT !.buyer = <<>>],
   [BaseIn EXCEPT !.sellingVatType = Nul],
   [BaseIn EXCEPT !.sellingVatType = Str(T_VAT0), !.buyerCountry = Arr(<<C_nl>>)],
   [BaseIn EXCEPT !.sellingVatType = Str(T_VAT0), !.buyerVatId = Arr(<<>>)],
   [BaseIn EXCEPT !.finalDealPrice = <<99990>>]}

InitRetry ==
  /\ InitStore
  /\ ext \in {[o1 |-> c, o2 |-> ConfirmedBy("m3")] :
                c \in {Unconfirmed, ConfirmedBy("m1"), ConfirmedBy("m2")}}
  /\ opIn \in {[o1 |-> i, o2 |-> BaseIn] : i \in RetryInputs}
  /\ invQty = [u1 |-> <<2>>, u2 |-> <<>>]

NextRetry ==
  \/ Trigger("o1", MaxRaceCalls)
  \/ FinSteps

SpecRetry == InitRetry /\ [][NextRetry]_vars

\* ------------------------------------------------------- fan-out: Init
C_Netherlands == <<"N","e","t","h","e","r","l","a","n","d","s">>

\* the seller entries a payload may carry
SellerEntries ==
  {[sellerId |-> "SE-1", inventoryRecordId |-> "u1", sellerVatType |-> T_VAT21,
    sellerCountry |-> C_DE, sellerVatRatePct |-> <<>>,
    sellerSuggestedRaw |-> <<100000>>, baseOfferIncl |-> <<90000>>],
   [sellerId |-> "SE-2", inventoryRecordId |-> "u2", sellerVatType |-> T_VAT21,
    sellerCountry |-> C_DE, sellerVatRatePct |-> <<>>,
    sellerSuggestedRaw |-> <<100000>>, baseOfferIncl |-> <<110000>>],
   [sellerId |-> "SE-3", inventoryRecordId |-> "u2", sellerVatType |-> T_VAT0,
    sellerCountry |-> C_DE, sellerVatRatePct |-> Pct21,
    sellerSuggestedRaw |-> <<100000>>, baseOfferIncl |-> <<110000>>],
   [sellerId |-> "SE-4", inventoryRecordId |-> "u1", sellerVatType |-> T_VAT0,
    sellerCountry |-> C_Netherlands, sellerVatRatePct |-> Pct21,
    sellerSuggestedRaw |-> <<100000>>, baseOfferIncl |-> <<125000>>],
   [sellerId |-> "SE-5", inventoryRecordId |-> "u2", sellerVatType |-> L_Margin,
    sellerCountry |-> <<>>, sellerVatRatePct |-> <<>>,
    sellerSuggestedRaw |-> <<>>, baseOfferIncl |-> <<100000>>]}

RECURSIVE SeqsUpTo(_, _)
SeqsUpTo(S, n) ==
  IF n = 0 THEN {<<>>}
  ELSE LET shorter == SeqsUpTo(S, n - 1) IN
       shorter \cup {Append(q, x) : q \in shorter, x \in S}

SellersFields == {Nul} \cup {Arr(q) : q \in SeqsUpTo(SellerEntries, MaxSellers)}

InitIdleRest ==
  /\ pending = {}
  /\ clicks = 0
  /\ sales = {}
  /\ affiliates = {}
  /\ faults = 0
  /\ invStock = [u \in Units |-> <<"st1">>]
  /\ ext = [o \in Orders |-> BlankExt]
  /\ opIn = [o \in Orders |-> <<>>]
  /\ invSeller = [u1 |-> <<"recS1">>, u2 |-> <<"recS2">>]
  /\ invQty = [u \in Units |-> <<2>>]
  /\ offerLog = {}
  /\ msgs = FreshMsgs
  /\ ch = [h \in ClickIds |-> IdleClick]
  /\ fh = [k \in FinIds |-> IdleFin]

InitSend ==
  /\ InitIdleRest
  /\ fo = IdleFanout
  /\ sentMsgs = <<>>
  /\ logRows = {}
  /\ dec = IdleDecide
  /\ wr = IdleWrite

NextSend ==
  \/ \E o \in {"", "o1"}, q \in SellersFields : ExternalOffers(o, q)
  \/ \E ok \in BOOLEAN : SendStep(ok)
  \/ \E ok \in BOOLEAN : LogStep(ok)

SpecSend == InitSend /\ [][NextSend]_vars

\* ------------------------------------------- decideModeAndDisplay: Init
DecideInputs ==
  [vatTypeRaw : {<<>>, L_Margin, T_VAT21, T_VAT21p, T_VAT0,
                 <<"v","a","t","-","0">>, <<"O","S","S">>,
                 <<"V","A","T","0","/","M","a","r","g","i","n">>,
                 <<"V","A","T","0","+","V","A","T","2","1">>},
   sellerCountry : {<<>>, C_nl, C_DE, C_Netherlands},
   sellerVatPct : {<<>>, Pct21, <<Frac021>>, <<RatOf(9)>>, <<RatOf(0)>>},
   sellerSuggestedRaw : {90000, 100000},
   ourOfferIncl : {90000, 100000, 110000, 121000, 125000}]

InitDecide ==
  /\ InitIdleRest
  /\ fo = IdleFanout
  /\ sentMsgs = <<>>
  /\ logRows = {}
  /\ dec \in {[in |-> <<x>>, out |-> <<>>] : x \in DecideInputs}
  /\ wr = IdleWrite

NextDecide == Decide

SpecDecide == InitDecide /\ [][NextDecide]_vars

\* ------------------------------------ decideModeAndDisplay, whole cents
\* prices in whole cents around the point where the VAT computation leaves
\* a fraction of a cent
RoundInputs ==
  [vatTypeRaw : {L_Margin, T_VAT21, T_VAT0},
   sellerCountry : {C_nl, C_DE},
   sellerVatPct : {<<>>, Pct21},
   sellerSuggestedRaw : {100000, 100010},
   ourOfferIncl : {99990, 100000, 121000, 121010, 125000}]

InitRound ==
  /\ InitIdleRest
  /\ fo = IdleFanout
  /\ sentMsgs = <<>>
  /\ logRows = {}
  /\ wr = IdleWrite
  /\ dec \in {[in |-> <<x>>, out |-> <<>>] : x \in RoundInputs}

NextRound == Decide

SpecRound == InitRound /\ [][NextRound]_vars

\* ------------------------------------------------------- toPct01: Init
\* numbers a payload may carry as sellerVatRatePct: whole numbers and hundredths
PctNumerators == -5 .. 120
PctInputs == {<<>>} \cup {<<(<<n, d>>)>> : n \in PctNumerators, d \in {1, 100}}

InitPct ==
  /\ InitIdleRest
  /\ fo = IdleFanout
  /\ sentMsgs = <<>>
  /\ logRows = {}
  /\ wr = IdleWrite
  /\ dec \in {[in |-> <<p>>, out |-> <<>>] : p \in PctInputs}

NextPct == Normalise

SpecPct == InitPct /\ [][NextPct]_vars

\* ------------------------------------- single-choice field writes: Init
\* the encodings the base accepts for its single-choice fields
InitWrite ==
  /\ InitIdleRest
  /\ fo = IdleFanout
  /\ sentMsgs = <<>>
  /\ logRows = {}
  /\ dec = IdleDecide
  /\ wr \in {[IdleWrite EXCEPT !.accepts = a] : a \in SUBSET {"structured", "plain"}}

NextWrite ==
  \/ \E op \in WriteOps, c \in BOOLEAN : StartWrite(op, c)
  \/ \E ok \in BOOLEAN : FirstRequest(ok)
  \/ \E ok \in BOOLEAN : SecondRequest(ok)

SpecWrite == InitWrite /\ [][NextWrite]_vars

\* ======================================================= approval properties
OrderOf(h) == ch[h].orderRecId
AtOrPastWrite(h) == ch[h].pc \in {"write", "disableSelf", "list", "siblings"}
Writers(o) == {h \in ClickIds : OrderOf(h) = o /\ ch[h].wrote}
Terms(rec) == <<rec.confirmedSeller, rec.confirmedPrice, rec.confirmedInv>>

\* C1 (as claimed): winner-take-all; once Confirmed Seller / Confirmed Offer
\* Price / Confirmed Inventory Unit are set on an order, no later confirm
\* event overwrites them.
C1_WinnerTakeAll ==
  [][\A o \in Orders : HasTerms(o) => Terms(ext'[o]) = Terms(ext[o])]_vars

\* C2 (as claimed): of two confirm events of one order handled concurrently,
\* only one is ever at or past the confirmation write step.
C2_Mutex ==
  \A h1, h2 \in ClickIds :
    (h1 # h2 /\ OrderOf(h1) = OrderOf(h2) /\ AtOrPastWrite(h1)) => ~AtOrPastWrite(h2)

\* C3 (as claimed): a confirm handler called for an order that already has
\* a written Confirmation performs no write of terms.
C3_Idempotent ==
  \A h \in ClickIds : ch[h].sawTerms => ~ch[h].wrote

\* C5: a failed confirm attempt never wedges the order: every delivered
\* confirm event goes on to seller resolution, whatever happened to earlier
\* handlers of the same order, and a successful resolution goes on to the
\* confirmation write.
C5_NeverWedged ==
  [][\A h \in ClickIds :
       /\ (ch[h].pc = "unused" /\ ch'[h].pc # "unused" /\ ch'[h].action = "confirm_ext")
             => ch'[h].pc = "resolve"
       /\ (ch[h].pc = "resolve" /\ ch'[h].pc # "resolve" /\ faults' = faults
             /\ invSeller[ch[h].inventoryRecordId] # <<>>)
             => ch'[h].pc = "write"]_vars

\* C5 witness: a confirm handler called after another handler of the same
\* order had ended by an error is at the write step.
C5_Witness ==
  \E h \in ClickIds : ch[h].sawError /\ ch[h].action = "confirm_ext" /\ ch[h].pc = "write"

\* ======================================================= finalize properties
Quiescent == \A k \in FinIds : fh[k].pc \in {"unused", "done"}
QtyVal(q) == IF q = <<>> THEN 0 ELSE q[1]
SalesOfOrder(o) == {x \in sales : x.order = o}
SalesOfUnit(u) == {x \in sales : x.unit = u}
HasRead(k) == fh[k].f # <<>>
ValidationFailed(k) == HasRead(k) /\ fh[k].rejectedBy # ""
NothingCreatedBy(k) ==
  /\ fh[k].salesId = 0
  /\ \A x \in sales : x.id # k
  /\ \A a \in affiliates : a.sale # k

\* C4 (as claimed): over any sequence of finalize calls, at most one Sale
\* record is created for an order.
C4_SaleAtMostOnce == \A o \in Orders : Cardinality(SalesOfOrder(o)) <= 1

\* C6 (as claimed): once all calls have ended, and no collaborator call
\* failed, every inventory unit stands at its initial quantity lowered by one
\* for each Sale created for it (floored at zero).
C6_DecrementPerSale ==
  (Quiescent /\ faults = 0) =>
     \A u \in Units :
       LET want == QtyVal(IF u = "u1" THEN <<2>> ELSE <<>>) - Cardinality(SalesOfUnit(u))
       IN QtyVal(invQty[u]) = IF want > 0 THEN want ELSE 0

\* C7 (as claimed): no step of the service raises a stored quantity or makes
\* it negative.
C7_QuantityMonotone ==
  [][\A u \in Units : /\ QtyVal(invQty'[u]) <= QtyVal(invQty[u])
                      /\ QtyVal(invQty'[u]) >= 0]_vars

\* C8 (as claimed): a call whose validation failed ends with a 422 response,
\* its feedback on the order, deal progress Closing, and nothing created.
C8_RejectIs422 ==
  \A k \in FinIds :
    (fh[k].pc = "done" /\ ValidationFailed(k)) =>
       /\ fh[k].response = 422
       /\ ext[fh[k].recordId].feedback.kind = fh[k].rejectedBy
       /\ ext[fh[k].recordId].dealStatus = "Closing"
       /\ NothingCreatedBy(k)

\* C8 (amended): a call whose validation failed goes straight to the feedback
\* write and creates nothing (no Sale, no decrement, no affiliate record); it
\* ends with 422 exactly when that write succeeded, leaving its feedback and
\* Closing on the order, and otherwise with 500, after one more attempt to
\* write feedback.
C8_RejectShortCircuits ==
  [][\A k \in FinIds :
       ValidationFailed(k)' =>
         /\ fh'[k].pc \in {"feedback", "done"}
         /\ NothingCreatedBy(k)'
         /\ fh'[k].invId = "" /\ fh'[k].cur = <<>>
         /\ (fh[k].pc = "feedback" /\ fh'[k].pc = "done") =>
              \/ /\ fh'[k].response = 422
                 /\ faults' = faults
                 /\ fh[k].fb.kind = fh[k].rejectedBy
                 /\ ext'[fh[k].recordId].feedback = fh[k].fb
                 /\ ext'[fh[k].recordId].dealStatus = "Closing"
              \/ /\ fh'[k].response = 500
                 /\ fh[k].fb.kind = "serverError"]_vars

\* C8 witness: a rejected call has ended with 422 and its feedback written
C8_Witness ==
  \E k \in FinIds :
    /\ fh[k].pc = "done" /\ ValidationFailed(k) /\ fh[k].response = 422
    /\ ext[fh[k].recordId].feedback.kind = fh[k].rejectedBy
    /\ ext[fh[k].recordId].dealStatus = "Closing"

C10_MarginRule ==
  \A k \in FinIds :
    (/\ HasRead(k)
     /\ ~PresenceMissing(fh[k].f) /\ ~ConfirmedOfferMissing(fh[k].f)
     /\ toText(fh[k].f.offerVatType) = L_Margin) =>
       LET sel == toText(fh[k].f.sellingVatType)
           v == Validate(fh[k].f)
       IN /\ sel = T_VAT21 => v.why = "marginMismatch"
          /\ sel \in {L_Margin, <<>>} =>
               /\ v.why \notin {"invalidVat", "marginMismatch"}
               /\ v.ok => v.mappedVat = L_Margin


\* the row a call read passed the presence check and the confirmed-offer guard
PastGuard(k) ==
  HasRead(k) /\ ~PresenceMissing(fh[k].f) /\ ~ConfirmedOfferMissing(fh[k].f)
OfferIsMargin(k) == toText(fh[k].f.offerVatType) = L_Margin
Selected(k) == toText(fh[k].f.sellingVatType)
SalesBy(k) == {x \in sales : x.id = k}

\* C11 (as claimed): no Sale is created by a call that read Margin as the
\* VAT type recorded at confirmation and Private as the operator's selection.
C11_PrivateUnderMarginRejected ==
  \A k \in FinIds :
    (HasRead(k) /\ OfferIsMargin(k) /\ Selected(k) = L_Private) => SalesBy(k) = {}

\* C11 (amended): with Margin recorded at confirmation, a Private selection
\* is not rejected by the VAT step: the invoice VAT type is Margin, only the
\* Margin floor can still reject, and a Sale the call creates has VAT type
\* Margin.
C11_PrivateUnderMarginIsMargin ==
  \A k \in FinIds :
    (PastGuard(k) /\ OfferIsMargin(k) /\ Selected(k) = L_Private) =>
       LET f == fh[k].f IN
       /\ fh[k].rejectedBy \in {"", "belowMinimum"}
       /\ fh[k].rejectedBy = "" => fh[k].mappedVat = L_Margin
       /\ fh[k].rejectedBy = "belowMinimum" <=>
            (f.finalDealPrice[1] < f.minMargin[1] /\ ~f.exceptionApproved)
       /\ \A x \in SalesBy(k) : x.vatType = L_Margin

\* C11 witness: a Sale with VAT type Margin made from a Margin order whose
\* selection was Private
C11_Witness ==
  \E k \in FinIds :
    /\ PastGuard(k) /\ OfferIsMargin(k) /\ Selected(k) = L_Private
    /\ \E x \in SalesBy(k) : x.vatType = L_Margin

InNetherlands(k) == toLowerCase(toText(fh[k].f.buyerCountry)) = <<"n","l">>
HasVatId(k) == toText(fh[k].f.buyerVatId) # <<>>

\* C12: a Sale with VAT type VAT0 is created only by a call whose row shows a
\* buyer outside the Netherlands with a VAT id; for a regime other than
\* Margin, a VAT0 selection is rejected with the NL reason for an NL buyer
\* and with the VAT-id reason for another buyer without a VAT id.
C12_Vat0Rule ==
  \A k \in FinIds :
    /\ (\E x \in SalesBy(k) : x.vatType = T_VAT0) => (~InNetherlands(k) /\ HasVatId(k))
    /\ (PastGuard(k) /\ ~OfferIsMargin(k) /\ toUpperCase(Selected(k)) \in {T_VAT0, T_VAT0p}) =>
         /\ InNetherlands(k) => fh[k].rejectedBy = "vat0NL"
         /\ (~InNetherlands(k) /\ ~HasVatId(k)) => fh[k].rejectedBy = "vat0NoVatId"
         /\ (~InNetherlands(k) /\ HasVatId(k)) => fh[k].rejectedBy \in {"", "belowMinimum"}

\* C12 witness: a VAT0 Sale exists, and it is for a buyer outside the
\* Netherlands who has a VAT id
C12_Witness ==
  \E k \in FinIds :
    /\ \E x \in SalesBy(k) : x.vatType = T_VAT0
    /\ ~InNetherlands(k) /\ HasVatId(k)

\* C12 second case reached: an NL buyer's VAT0 selection was turned down
C12_RejectionReached ==
  \E k \in FinIds :
    PastGuard(k) /\ InNetherlands(k) /\ fh[k].rejectedBy = "vat0NL" /\ fh[k].pc = "done"

KnownSelections == {T_PRIVATE, T_VAT21, T_VAT21p, T_VAT0, T_VAT0p, T_MARGIN}

\* C13: for a recorded regime other than Margin, a Private selection gives
\* invoice VAT type VAT21, a missing or unrecognised selection is rejected
\* as invalid, and every Sale carries the mapped invoice type of its call as
\* VAT type, whatever type was recorded at confirmation.
C13_PrivateMapsToVat21 ==
  \A k \in FinIds :
    /\ \A x \in SalesBy(k) : x.vatType = fh[k].mappedVat /\ fh[k].mappedVat # <<>>
    /\ (PastGuard(k) /\ ~OfferIsMargin(k)) =>
         /\ toUpperCase(Selected(k)) = T_PRIVATE =>
              /\ fh[k].rejectedBy \in {"", "belowMinimum"}
              /\ fh[k].rejectedBy = "" => fh[k].mappedVat = T_VAT21
              /\ \A x \in SalesBy(k) : x.vatType = T_VAT21
         /\ toUpperCase(Selected(k)) \notin KnownSelections =>
              /\ fh[k].rejectedBy = "invalidVat"
              /\ SalesBy(k) = {}

\* C13 witness: a VAT21 Sale made from an order recorded as VAT0 whose
\* selection was Private
C13_Witness ==
  \E k \in FinIds :
    /\ PastGuard(k) /\ toText(fh[k].f.offerVatType) = T_VAT0 /\ Selected(k) = L_Private
    /\ \E x \in SalesBy(k) : x.vatType = T_VAT21

\* C13 second case reached: an unrecognised selection was turned down
C13_InvalidReached ==
  \E k \in FinIds :
    /\ PastGuard(k) /\ Selected(k) = <<"O","S","S">>
    /\ fh[k].rejectedBy = "invalidVat" /\ fh[k].pc = "done"

\* the invoice VAT type of the row a call read, and the floor stored for it
InvoiceVat(k) == mapSellingVat(toText(fh[k].f.offerVatType), Selected(k))
FloorFor(k) ==
  CASE InvoiceVat(k) = T_VAT0   -> fh[k].f.minVat0
    [] InvoiceVat(k) = T_VAT21  -> fh[k].f.minVat21
    [] InvoiceVat(k) = L_Margin -> fh[k].f.minMargin
PastVatStep(k) == PastGuard(k) /\ fh[k].rejectedBy \in {"", "belowMinimum"}

\* C14: a call that passed the VAT step is rejected by the floor exactly when
\* the final price is strictly below the floor stored for its invoice VAT
\* type and no exception is approved; a price equal to the floor passes.
C14_FloorRule ==
  \A k \in FinIds :
    PastVatStep(k) =>
      (fh[k].rejectedBy = "belowMinimum" <=>
         (fh[k].f.finalDealPrice[1] < FloorFor(k)[1] /\ ~fh[k].f.exceptionApproved))

\* C14 witness: invoice type VAT21, floor 100.00, final price 100.00, no
\* exception: accepted, the Sale exists
C14_Witness ==
  \E k \in FinIds :
    /\ PastVatStep(k) /\ InvoiceVat(k) = T_VAT21
    /\ fh[k].f.finalDealPrice = FloorFor(k) /\ ~fh[k].f.exceptionApproved
    /\ SalesBy(k) # {}

\* C14 other cases reached: 99.99 against the VAT21 floor of 100.00 turned
\* down; 99.99 against the VAT0 floor of 95.00 sold
C14_BelowReached ==
  \E k \in FinIds :
    /\ PastVatStep(k) /\ InvoiceVat(k) = T_VAT21 /\ fh[k].f.finalDealPrice = <<99990>>
    /\ fh[k].rejectedBy = "belowMinimum" /\ fh[k].pc = "done" /\ fh[k].response = 422
C14_OtherFloorReached ==
  \E k \in FinIds :
    /\ PastVatStep(k) /\ InvoiceVat(k) = T_VAT0 /\ fh[k].f.finalDealPrice = <<99990>>
    /\ ~fh[k].f.exceptionApproved /\ SalesBy(k) # {}

\* the call created its Sale and then failed to create the affiliate record
AffiliateFailed(k) ==
  /\ fh[k].salesId = k
  /\ fh[k].pc \in {"feedback", "done"}
  /\ \A a \in affiliates : a.sale # k
PartialWarning(k) == [kind |-> "affiliateFailed", salesId |-> k]

\* C15 (as claimed): a call whose affiliate record could not be created ends
\* with its Sale kept, the partial-success warning naming that Sale on the
\* order and deal progress Closing.
C15_WarningWritten ==
  [][\A k \in FinIds :
       (AffiliateFailed(k)' /\ fh[k].pc # "done" /\ fh'[k].pc = "done") =>
          /\ SalesBy(k)' # {}
          /\ ext'[fh[k].recordId].feedback = PartialWarning(k)
          /\ ext'[fh[k].recordId].dealStatus = "Closing"]_vars

\* C15 (amended): when the affiliate record cannot be created after the Sale
\* was, the Sale stays, the call goes on to write the partial-success warning
\* naming its Sale with deal progress Closing and answers 500; the warning is
\* on the order when that write succeeds, and when the write fails only a
\* generic server-error feedback is attempted.  The call never writes Deal
\* Processed.
C15_PartialSuccess ==
  [][/\ sales \subseteq sales'
     /\ \A k \in FinIds :
          /\ (fh[k].pc = "affiliate" /\ AffiliateFailed(k)') =>
                /\ fh'[k].pc = "feedback" /\ fh'[k].fb = PartialWarning(k)
          /\ AffiliateFailed(k)' =>
                /\ SalesBy(k)' # {}
                /\ fh'[k].dealStatusName = "Closing" /\ fh'[k].status = 500
                /\ fh'[k].fb.kind \in {"affiliateFailed", "serverError"}
                /\ fh'[k].pc = "done" => fh'[k].response = 500
          /\ (AffiliateFailed(k) /\ fh[k].pc = "feedback" /\ fh'[k] # fh[k] /\ ext' # ext) =>
                /\ ext'[fh[k].recordId].feedback = fh[k].fb
                /\ ext'[fh[k].recordId].dealStatus = "Closing"
          /\ (AffiliateFailed(k) /\ fh[k].pc = "feedback" /\ fh[k].fb = PartialWarning(k)
                /\ fh'[k] # fh[k] /\ faults' = faults) =>
                /\ fh'[k].pc = "done"
                /\ ext'[fh[k].recordId].feedback = PartialWarning(k)]_vars

\* C15 witness: the call has ended, its Sale exists, no affiliate record
\* does, and the warning naming the Sale is on the order, which is at Closing
C15_Witness ==
  \E k \in FinIds :
    /\ AffiliateFailed(k) /\ fh[k].pc = "done" /\ SalesBy(k) # {}
    /\ ext[fh[k].recordId].feedback = PartialWarning(k)
    /\ ext[fh[k].recordId].dealStatus = "Closing"

\* C16 (as claimed): once an order's deal progress is Deal Processed, no
\* step of the service changes it.
C16_ProcessedIsTerminal ==
  [][\A o \in Orders :
       ext[o].dealStatus = "Deal Processed" => ext'[o].dealStatus = "Deal Processed"]_vars

\* ============================================== approval properties, continued
DeniedNote(h) == [disabled |-> TRUE, note |-> [kind |-> "denied", who |-> ch[h].sellerId]]

\* C17: every step of a handler of a deny event leaves the order records, the
\* inventory, the message log and every message other than the clicked one
\* unchanged; the only change it makes is to disable the clicked message with
\* the denied note.
C17_DenyFrame ==
  [][\A h \in ClickIds :
       (ch'[h].action = "deny_ext" /\ ch'[h] # ch[h]) =>
          /\ ext' = ext /\ invQty' = invQty /\ invSeller' = invSeller
          /\ offerLog' = offerLog /\ sales' = sales /\ affiliates' = affiliates
          /\ \A m \in Msgs \ {ch'[h].messageId} : msgs'[m] = msgs[m]
          /\ msgs' # msgs => msgs'[ch'[h].messageId] = DeniedNote(h)']_vars

\* C17 witness: after one seller's deny was handled, another seller's confirm
\* for the same order wrote its terms
C17_Witness ==
  \E h1, h2 \in ClickIds :
    /\ h1 < h2 /\ OrderOf(h1) = OrderOf(h2)
    /\ ch[h1].outcome = "denied" /\ msgs[ch[h1].messageId] = DeniedNote(h1)
    /\ ch[h2].action = "confirm_ext" /\ ch[h2].wrote
    /\ ext[OrderOf(h2)].confirmedInv = <<ch[h2].inventoryRecordId>>

\* the terms carried by message m, as a confirmation writes them
TermsOfMessage(m) ==
  [confirmedPrice  |-> <<LoggedPrice(m)>>,
   confirmedInv    |-> <<ButtonOf(m).inventoryRecordId>>,
   confirmedSeller |-> invSeller[ButtonOf(m).inventoryRecordId],
   offerVatType    |-> ButtonOf(m).vatLabel,
   offerStatus     |-> "Confirmed",
   dealStatus      |-> "Closing"]
WrittenTerms(rec) ==
  [confirmedPrice  |-> rec.confirmedPrice,
   confirmedInv    |-> rec.confirmedInv,
   confirmedSeller |-> rec.confirmedSeller,
   offerVatType    |-> rec.offerVatType,
   offerStatus     |-> rec.offerStatus,
   dealStatus      |-> rec.dealStatus]

\* C18: the confirmation write of a handler leaves on the order of the
\* clicked message exactly that message's terms: its button price (equal to
\* its logged price), the unit it references, the seller linked to that unit,
\* its VAT label, status Confirmed and progress Closing; no other order is
\* touched.
C18_WritesClickedTerms ==
  [][\A h \in ClickIds :
       (~ch[h].wrote /\ ch'[h].wrote) =>
          LET m == ch[h].messageId
              o == ButtonOf(m).orderRecId
          IN /\ WrittenTerms(ext'[o]) = TermsOfMessage(m)
             /\ ext'[o].confirmedPrice = <<ButtonOf(m).offerPrice>>
             /\ ext'[o].confirmedSeller # <<>>
             /\ \A p \in Orders \ {o} : ext'[p] = ext[p]]_vars

\* C18 witness: the confirm of message m2 was written and the order carries
\* the terms of m2
C18_Witness ==
  \E h \in ClickIds :
    /\ ch[h].wrote /\ ch[h].messageId = "m2"
    /\ WrittenTerms(ext["o1"]) = TermsOfMessage("m2")

OthersLogged(h) == listOfferMessagesForOrder(ch[h].orderRecId) \ {ch[h].messageId}
ClosedNote == [disabled |-> TRUE, note |-> [kind |-> "closedOther", who |-> ""]]

\* C19 (as claimed): a handler that wrote a confirmation and has ended has
\* gone through the disabling of the other logged messages of the order.
C19_SiblingsAlwaysAttempted ==
  \A h \in ClickIds : (ch[h].wrote /\ ch[h].pc = "done") => ch[h].outcome = "confirmed"

\* C19 (amended): once the confirmation is written, the clicked message is
\* disabled and the log is listed, a disable is started for every other
\* logged message of the order; each settles on its own: whether it fails or
\* not, the others stay pending until they settle too, the confirmation is
\* untouched, and the handler ends normally when all have settled.
C19_FanoutBestEffort ==
  [][\A h \in ClickIds :
       /\ (ch[h].pc = "list" /\ ch'[h].pc # "list" /\ faults' = faults) =>
             /\ ch'[h].todo = OthersLogged(h)
             /\ ch'[h].pc = IF OthersLogged(h) = {} THEN "done" ELSE "siblings"
       /\ (ch[h].pc = "siblings" /\ ch'[h] # ch[h]) =>
             /\ \E m \in ch[h].todo :
                  /\ ch'[h].todo = ch[h].todo \ {m}
                  /\ msgs' = IF faults' = faults
                             THEN [msgs EXCEPT ![m] = ClosedNote] ELSE msgs
             /\ ch'[h].pc = IF ch'[h].todo = {} THEN "done" ELSE "siblings"
             /\ ch'[h].outcome # "error" /\ ch'[h].wrote
             /\ ext' = ext]_vars

\* C19 witness: a handler ended normally with its confirmation on the order,
\* one sibling still enabled because its disable failed and another sibling
\* disabled
C19_Witness ==
  \E h \in ClickIds :
    /\ ch[h].outcome = "confirmed" /\ ch[h].wrote
    /\ WrittenTerms(ext[ch[h].orderRecId]) = TermsOfMessage(ch[h].messageId)
    /\ \E ma, mb \in OthersLogged(h) :
         ma # mb /\ ~msgs[ma].disabled /\ msgs[mb] = ClosedNote

\* C20 (as claimed): every handled confirm or deny click ends with the
\* clicked message disabled and carrying a note; stated for runs in which no
\* call to the record store or to Discord failed, so that a handler can only
\* have failed in seller resolution (unit without a linked seller).
C20_NeverSilent ==
  \A h \in ClickIds :
    (ch[h].pc = "done" /\ ch[h].action \in {"confirm_ext", "deny_ext"} /\ faults = 0) =>
       /\ msgs[ch[h].messageId].disabled
       /\ msgs[ch[h].messageId].note.kind # "sent"

\* ======================================= finalize properties, continued
NotSuccessful(k) ==
  fh[k].pc = "done" /\ fh[k].recordId # "" /\ fh[k].response # 200

\* C21: every finalize call that does not end in success leaves the order
\* with written feedback text and Deal Status "Closing", never in the
\* "Deal Closed" state it was triggered from.
C21_FailureLeavesFeedback ==
  \A k \in FinIds :
    NotSuccessful(k) =>
      /\ ext[fh[k].recordId].feedback # NoFeedback
      /\ ext[fh[k].recordId].dealStatus = "Closing"

FanoutFinished == fo.pc = "done" /\ fo.response # 400
ResultIds == {fo.results[j].messageId : j \in DOMAIN fo.results}
LoggedIds == {r.messageId : r \in logRows}

\* C22: during fan-out a failure for one seller skips only that seller: the
\* sellers after it are still processed and the response (200) summarises
\* every message that was sent.
C22_FailureSkipsOnlyThatSeller ==
  FanoutFinished =>
    /\ \A i \in DOMAIN fo.sellers : pricesFinite(fo.sellers[i]) => i \in fo.attempted
    /\ sentMsgs # <<>> => (fo.response = 200 /\ ResultIds = DOMAIN sentMsgs)

LaterSellers(i) == {j \in DOMAIN fo.sellers : j > i /\ pricesFinite(fo.sellers[j])}

\* C23: each message is sent, then its log write is attempted, and only then
\* is it counted in the results; a failed log write is swallowed: nothing is
\* re-sent, the seller is counted, and the loop goes on with the next seller.
C23_LogIsBestEffort ==
  [][ /\ ResultIds' \subseteq fo'.logTried
      /\ fo'.logTried \subseteq DOMAIN sentMsgs'
      /\ LoggedIds' \subseteq fo'.logTried
      /\ \A a, b \in DOMAIN sentMsgs' : sentMsgs'[a].at = sentMsgs'[b].at => a = b
      /\ fo.pc = "log" =>
           /\ sentMsgs' = sentMsgs
           /\ Len(fo'.results) = Len(fo.results) + 1
           /\ fo'.results[Len(fo'.results)].messageId = Len(sentMsgs)
           /\ fo'.results[Len(fo'.results)].sellerId = fo.sellers[fo.i].sellerId
           /\ (faults' # faults) => logRows' = logRows
           /\ (faults' = faults) => Len(sentMsgs) \in LoggedIds'
           /\ IF LaterSellers(fo.i) = {}
              THEN fo'.pc = "done" /\ fo'.response = 200
              ELSE fo'.pc = "send" /\ fo'.i \in LaterSellers(fo.i)
                   /\ \A j \in LaterSellers(fo.i) : fo'.i <= j ]_vars

C23_Witness ==
  /\ fo.pc = "done" /\ fo.response = 200
  /\ \E a, b \in ResultIds : a < b /\ a \notin LoggedIds /\ b \in LoggedIds

\* C24: a fan-out request whose order reference is missing, or whose seller
\* list is missing or empty, is rejected (400) without sending any message
\* and without writing any log row; no other request is rejected.
C24_RejectedWithoutEffect ==
  fo.pc # "idle" =>
    /\ (fo.orderRecId = "" \/ fo.sellers = <<>>) =>
         /\ fo.pc = "done" /\ fo.response = 400
         /\ sentMsgs = <<>> /\ logRows = {} /\ fo.results = <<>>
    /\ fo.response = 400 => (fo.orderRecId = "" \/ fo.sellers = <<>>)

C24_Witness ==
  fo.response = 400 /\ fo.orderRecId = "" /\ \E i \in DOMAIN fo.sellers : pricesFinite(fo.sellers[i])

C24_EmptyListReached == fo.response = 400 /\ fo.orderRecId = "o1"

\* C29: the price carried by a message's button depends on the mode: in offer
\* mode it is the house's adjusted amount rounded to 2 decimals (seller 100,
\* house 90, VAT21: offer, 90.00); in confirm mode it is the seller's own
\* amount on the display basis rounded to 2 decimals (seller 100, house 110:
\* confirm, 100.00), never the house's higher price.
C29_ButtonPriceByMode ==
  \A j \in DOMAIN sentMsgs :
    LET m == sentMsgs[j]
        s == fo.sellers[m.at]
        d == decisionFor(s)
    IN /\ m.kind = d.mode
       /\ m.kind = "offer" => m.price = toFixed2(d.ourAmount)
       /\ m.kind = "confirm" =>
            /\ m.price = toFixed2(d.yourAmount)
            /\ m.price <= s.baseOfferIncl[1]
       /\ (s.sellerVatType = T_VAT21 /\ s.sellerSuggestedRaw = <<100000>>
             /\ s.baseOfferIncl = <<90000>>) => (m.kind = "offer" /\ m.price = 90000)
       /\ (s.sellerVatType = T_VAT21 /\ s.sellerSuggestedRaw = <<100000>>
             /\ s.baseOfferIncl = <<110000>>) => (m.kind = "confirm" /\ m.price = 100000)

C29_Witness ==
  /\ fo.pc = "done"
  /\ \E a, b \in DOMAIN sentMsgs :
       /\ sentMsgs[a].kind = "offer" /\ sentMsgs[a].price = 90000
       /\ sentMsgs[b].kind = "confirm" /\ sentMsgs[b].price = 100000
          /\ fo.sellers[sentMsgs[b].at].baseOfferIncl = <<110000>>

\* ============================================ decideModeAndDisplay properties
Decided == dec.out # <<>>
NormalisedVatType == stripSpacesAndHyphens(toUpperCase(dec.in[1].vatTypeRaw))
IsMarginRegime == includes(NormalisedVatType, T_MARGIN)
IsVat21Regime == ~IsMarginRegime /\ includes(NormalisedVatType, T_VAT21)
IsVat0Regime == ~IsMarginRegime /\ ~includes(NormalisedVatType, T_VAT21)
                /\ includes(NormalisedVatType, T_VAT0)
\* the fraction the claims call vatFraction: 21% when no percentage is given
VatFraction == IF dec.in[1].sellerVatPct = <<>> THEN Frac021 ELSE toPct01(dec.in[1].sellerVatPct)[1]
ComparedAsIs ==
  /\ dec.out[1].basisSeller = RatOf(dec.in[1].sellerSuggestedRaw)
  /\ dec.out[1].basisOurs = RatOf(dec.in[1].ourOfferIncl)
  /\ dec.out[1].yourAmount = RatOf(dec.in[1].sellerSuggestedRaw)
  /\ dec.out[1].ourAmount = RatOf(dec.in[1].ourOfferIncl)

\* C25: for every regime and every pair of finite prices the mode is "offer"
\* iff the house basis is strictly less than the seller basis; equal bases
\* select "confirm".
C25_ModeIsStrictComparison ==
  Decided =>
    LET r == dec.out[1] IN
    /\ r.mode \in {"offer", "confirm"}
    /\ r.mode = "offer" <=>
         r.basisOurs[1] * r.basisSeller[2] < r.basisSeller[1] * r.basisOurs[2]
    /\ r.basisOurs[1] * r.basisSeller[2] = r.basisSeller[1] * r.basisOurs[2]
         => r.mode = "confirm"

C25_Witness ==
  /\ Decided /\ IsVat0Regime /\ isNL(dec.in[1].sellerCountry)
  /\ dec.in[1].sellerSuggestedRaw = 100000 /\ dec.in[1].ourOfferIncl = 121000
  /\ RatEq(dec.out[1].basisOurs, dec.out[1].basisSeller)
  /\ dec.out[1].mode = "confirm"

C25_OfferReached ==
  Decided /\ IsVat0Regime /\ ~isNL(dec.in[1].sellerCountry) /\ dec.out[1].mode = "offer"

\* C26: the regime is classified with the precedence Margin, then VAT21,
\* then VAT0: Margin compares the raw inputs unchanged and confirms Margin
\* whatever the seller's country; VAT21 compares as-is and confirms VAT21; an
\* unrecognised or missing regime is treated exactly as VAT21.
C26_RegimePrecedence ==
  Decided =>
    LET r == dec.out[1] IN
    /\ IsMarginRegime => (ComparedAsIs /\ r.confirmedVatType = L_Margin)
    /\ IsVat21Regime => (ComparedAsIs /\ r.confirmedVatType = T_VAT21)
    /\ (~IsMarginRegime /\ ~IsVat21Regime /\ ~IsVat0Regime) =>
         /\ ComparedAsIs /\ r.confirmedVatType = T_VAT21
         /\ r = decideModeAndDisplay([dec.in[1] EXCEPT !.vatTypeRaw = T_VAT21])

C26_Witness ==
  /\ Decided /\ isNL(dec.in[1].sellerCountry)
  /\ includes(NormalisedVatType, T_VAT0) /\ IsMarginRegime
  /\ dec.out[1].confirmedVatType = L_Margin

C26_DefaultReached ==
  Decided /\ dec.in[1].vatTypeRaw = <<>> /\ dec.out[1].confirmedVatType = T_VAT21

\* C27: for regime VAT0 with a Netherlands seller the seller's amount used for
\* comparison and display is sellerSuggestedRaw * (1 + vatFraction) (21% when
\* no percentage is given), the house amount is unchanged and the confirmed
\* type is VAT21 (raw 100, 21%, house 125: seller basis 121.00, confirm).
C27_Vat0NetherlandsUplift ==
  (Decided /\ IsVat0Regime /\ isNL(dec.in[1].sellerCountry)) =>
    LET r == dec.out[1]
        raw == dec.in[1].sellerSuggestedRaw
    IN /\ r.yourAmount[1] * VatFraction[2]
            = raw * (VatFraction[2] + VatFraction[1]) * r.yourAmount[2]
       /\ r.basisSeller = r.yourAmount
       /\ r.ourAmount = RatOf(dec.in[1].ourOfferIncl)
       /\ r.basisOurs = RatOf(dec.in[1].ourOfferIncl)
       /\ r.confirmedVatType = T_VAT21
       /\ (raw = 100000 /\ dec.in[1].sellerVatPct \in {<<>>, Pct21}
             /\ dec.in[1].ourOfferIncl = 125000) =>
            (toFixed2(r.basisSeller) = 121000 /\ r.mode = "confirm"
               /\ toFixed2(r.yourAmount) = 121000)

C27_Witness ==
  /\ Decided /\ dec.in[1].vatTypeRaw = T_VAT0 /\ dec.in[1].sellerCountry = C_Netherlands
  /\ dec.in[1].sellerVatPct = Pct21 /\ dec.in[1].sellerSuggestedRaw = 100000
  /\ dec.in[1].ourOfferIncl = 125000
  /\ dec.out[1].mode = "confirm" /\ toFixed2(dec.out[1].yourAmount) = 121000

C27_DefaultPctReached ==
  /\ Decided /\ IsVat0Regime /\ isNL(dec.in[1].sellerCountry)
  /\ dec.in[1].sellerVatPct = <<>> /\ dec.out[1].mode = "offer"

\* C28: for regime VAT0 with a seller outside the Netherlands the house amount
\* used for comparison and display is ourOfferIncl / (1 + vatFraction), the
\* seller's amount is the raw price unchanged and the confirmed type is VAT0.
C28_Vat0AbroadNetOfVat ==
  (Decided /\ IsVat0Regime /\ ~isNL(dec.in[1].sellerCountry)) =>
    LET r == dec.out[1]
        incl == dec.in[1].ourOfferIncl
    IN /\ r.ourAmount[1] * (VatFraction[2] + VatFraction[1])
            = incl * VatFraction[2] * r.ourAmount[2]
       /\ r.basisOurs = r.ourAmount
       /\ r.yourAmount = RatOf(dec.in[1].sellerSuggestedRaw)
       /\ r.basisSeller = RatOf(dec.in[1].sellerSuggestedRaw)
       /\ r.confirmedVatType = T_VAT0

C28_Witness ==
  /\ Decided /\ IsVat0Regime /\ dec.in[1].sellerCountry = C_DE
  /\ dec.in[1].sellerVatPct = Pct21 /\ dec.in[1].ourOfferIncl = 110000
  /\ dec.in[1].sellerSuggestedRaw = 100000
  /\ toFixed2(dec.out[1].ourAmount) = 90910 /\ dec.out[1].mode = "offer"
  /\ dec.out[1].confirmedVatType = T_VAT0

\* ============================================ finalize properties, inventory
InventoryPcs == {"resolveInv", "findInv", "decGet", "decPatch"}

\* C31: a failure while resolving or decrementing the inventory unit never
\* blocks the Sale: whether the confirmed reference no longer resolves, the
\* seller + stock-level lookup finds nothing or fails, or the quantity write
\* fails, the call goes on to create the Sale and then to the affiliate step.
C31_InventoryNeverBlocks ==
  [][\A k \in FinIds :
       (fh[k].pc \in InventoryPcs /\ fh'[k] # fh[k]) =>
          /\ fh'[k].pc \in InventoryPcs \cup {"postSale", "affiliate"}
          /\ fh[k].pc \in {"resolveInv", "findInv"} => fh'[k].pc \in {"findInv", "postSale"}
          /\ fh[k].pc \in {"decGet", "decPatch"} =>
               (fh'[k].pc \in {"decPatch", "affiliate"} /\ sales' = sales)]_vars

\* ============================================ approval properties, orders
\* C32: handling of different orders is independent: a confirm event that is
\* delivered while a handler for another order is running or has failed is
\* never refused, and no step of a handler changes another order's record.
C32_OrdersIndependent ==
  [][\A h \in ClickIds :
       /\ (ch[h].pc = "unused" /\ ch'[h].pc # "unused" /\ ch'[h].action = "confirm_ext"
             /\ \E g \in ClickIds \ {h} :
                   ch[g].pc # "unused" /\ ch[g].orderRecId # ch'[h].orderRecId) =>
            (ch'[h].pc = "resolve" /\ ch'[h].outcome = "")
       /\ (ch[h].pc # "unused" /\ ch'[h] # ch[h]) =>
            \A p \in Orders \ {ch[h].orderRecId} : ext'[p] = ext[p]]_vars

C32_Witness ==
  \E g, h \in ClickIds :
    /\ ch[g].orderRecId = "o1" /\ ch[g].action = "confirm_ext" /\ ch[g].outcome = "error"
    /\ ch[h].orderRecId = "o2" /\ ch[h].action = "confirm_ext" /\ ch[h].wrote
    /\ g < h
    /\ ext["o1"] = BlankExt /\ ext["o2"].offerStatus = "Confirmed"

C32_OverlapReached ==
  \E g, h \in ClickIds :
    /\ ch[g].orderRecId = "o1" /\ ch[g].pc = "write"
    /\ ch[h].orderRecId = "o2" /\ ch[h].pc = "write"

\* ============================================ finalize properties, retries
\* C33: re-triggering finalize on an order that fails validation is safe:
\* every call on the unchanged record gets the same rejection, and the state
\* left is the same each time: that rejection's feedback, Deal Status
\* "Closing", no Sale, no affiliate record, inventory unchanged.
C33_RejectionRepeatable ==
  \A j, k \in FinIds :
    (ValidationFailed(j) /\ HasRead(k) /\ fh[k].recordId = fh[j].recordId) =>
      /\ fh[k].rejectedBy = fh[j].rejectedBy
      /\ SalesOfOrder(fh[j].recordId) = {}
      /\ affiliates = {}
      /\ invQty = [u1 |-> <<2>>, u2 |-> <<>>]
      /\ (faults = 0 /\ fh[j].pc = "done") =>
           /\ fh[j].response = 422
           /\ ext[fh[j].recordId].feedback = [kind |-> fh[j].rejectedBy, salesId |-> 0]
           /\ ext[fh[j].recordId].dealStatus = "Closing"
           /\ [ext[fh[j].recordId] EXCEPT !.feedback = NoFeedback, !.dealStatus = "Deal Closed"]
                \in {Unconfirmed, ConfirmedBy("m1"), ConfirmedBy("m2")}

C33_Witness ==
  /\ faults = 0
  /\ \A k \in 1..MaxRaceCalls :
        fh[k].pc = "done" /\ fh[k].response = 422 /\ fh[k].rejectedBy = "belowMinimum"
  /\ ext["o1"].dealStatus = "Closing"

\* ================================== single-choice field write properties
\* C34: a write of single-choice fields sends the structured {name} encoding
\* first and the plain-string encoding only after the structured request was
\* rejected: at most two requests per operation, none after a successful
\* first one, and the error reaches the caller only when both fail.
C34_StructuredThenPlain ==
  /\ Len(wr.sent) <= 2
  /\ Len(wr.sent) >= 1 => wr.sent[1].enc = "structured"
  /\ Len(wr.sent) = 2 => (wr.sent[2].enc = "plain" /\ ~wr.sent[1].taken)
  /\ wr.pc = "done" =>
       /\ wr.result = "returned" <=> wr.sent[Len(wr.sent)].taken
       /\ wr.result = "threw" <=>
            (Len(wr.sent) = 2 /\ ~wr.sent[1].taken /\ ~wr.sent[2].taken)
  /\ wr.pc # "done" => wr.result = ""

C34_Witness ==
  /\ wr.pc = "done" /\ wr.hasChoice /\ wr.accepts = {"plain"} /\ faults = 0
  /\ Len(wr.sent) = 2 /\ ~wr.sent[1].taken /\ wr.sent[2].taken
  /\ wr.result = "returned"

C34_BothFailReached ==
  wr.pc = "done" /\ wr.result = "threw" /\ Len(wr.sent) = 2

C34_FirstSucceedsReached ==
  wr.pc = "done" /\ wr.result = "returned" /\ Len(wr.sent) = 1 /\ wr.hasChoice

\* ======================================================= toPct01 properties
\* C35: the VAT percentage normaliser returns a fraction in [0,1] for every
\* numeric input: values greater than 1 are divided by 100 and values at most
\* 1 are returned as they are (21 gives 0.21, 0.21 gives 0.21).
C35_FractionInUnitInterval ==
  (dec.out # <<>> /\ dec.in[1] # <<>>) =>
    LET p == dec.in[1][1]
        r == dec.out[1][1]
    IN /\ ~RatLess(r, RatOf(0)) /\ ~RatLess(RatOf(1), r)
       /\ RatLess(RatOf(1), p) => RatEq(r, RatDiv(p, RatOf(100)))
       /\ ~RatLess(RatOf(1), p) => r = p

\* ====================================== finalize properties, order of effects
SaleOf(k) == {x \in sales : x.id = k}
AffiliateOf(k) == {x \in affiliates : x.sale = k}

\* C36: within a finalize call the effects come in the order Sale creation,
\* inventory decrement, affiliate creation: a unit is decremented only after
\* the Sale request of the same call succeeded, by exactly one and at most
\* once per call, and when the Sale creation fails there is no decrement and
\* no affiliate record.
C36_SaleThenDecrementThenAffiliate ==
  [][\A k \in FinIds :
       (fh'[k] # fh[k]) =>
          /\ sales' # sales =>
               (fh[k].pc = "postSale" /\ SaleOf(k) = {} /\ AffiliateOf(k) = {}
                  /\ fh[k].cur = <<>> /\ invQty' = invQty)
          /\ invQty' # invQty =>
               /\ fh[k].pc = "decPatch" /\ fh'[k].pc = "affiliate"
               /\ SaleOf(k) # {} /\ fh[k].salesId = k
               /\ AffiliateOf(k) = {} /\ affiliates' = affiliates
               /\ \A u \in Units \ {fh[k].invId} : invQty'[u] = invQty[u]
               /\ invQty[fh[k].invId] # <<>> =>
                    invQty'[fh[k].invId] = <<invQty[fh[k].invId][1] - 1>>
          /\ fh[k].pc = "affiliate" => fh'[k].pc \notin {"decGet", "decPatch", "postSale"}
          /\ affiliates' # affiliates =>
               (fh[k].pc = "affiliate" /\ SaleOf(k) # {} /\ invQty' = invQty)
          /\ (fh[k].pc = "postSale" /\ faults' # faults) =>
               (fh'[k].pc = "feedback" /\ fh'[k].fb.kind = "salesFailed"
                  /\ sales' = sales)
          /\ fh[k].salesId = 0 => (invQty' = invQty /\ affiliates' = affiliates)]_vars

C36_Witness ==
  \E k \in FinIds :
    /\ fh[k].pc = "done" /\ fh[k].response = 200
    /\ SaleOf(k) # {} /\ AffiliateOf(k) # {}
    /\ invQty["u1"] = <<1>>

C36_SaleFailedReached ==
  \E k \in FinIds :
    /\ fh[k].pc = "done" /\ fh[k].fb.kind = "salesFailed" /\ fh[k].invId = "u1"
    /\ sales = {} /\ affiliates = {} /\ invQty["u1"] = <<2>>

\* the calls on order o that ran to their success reply with both records
ProcessedBy(o) ==
  {k \in FinIds :
     /\ fh[k].recordId = o /\ fh[k].fb.kind = "success" /\ fh[k].salesId = k
     /\ fh[k].pc = "done" /\ fh[k].response = 200
     /\ \E x \in sales : x.id = k /\ x.order = o
     /\ \E a \in affiliates : a.sale = k /\ a.order = o}

\* C37: whenever an order's deal progress is Deal Processed, a finalize call
\* on that order created a Sale and an affiliate record linked to that Sale
\* and then wrote the status; every affiliate record is linked to a Sale that
\* the same call created before it.
C37_ProcessedHasSaleAndAffiliate ==
  /\ \A o \in Orders : ext[o].dealStatus = "Deal Processed" => ProcessedBy(o) # {}
  /\ \A a \in affiliates :
       /\ a.sale \in FinIds /\ fh[a.sale].recordId = a.order
       /\ fh[a.sale].salesId = a.sale
       /\ fh[a.sale].pc \in {"feedback", "done"}
       /\ \E x \in sales : x.id = a.sale /\ x.order = a.order

C37_Witness ==
  /\ ext["o1"].dealStatus = "Deal Processed" /\ ProcessedBy("o1") # {}
  /\ \E k \in FinIds : fh[k].recordId = "o2" /\ fh[k].fb.kind = "affiliateFailed"

\* ============================================== approval properties, the notes
AllHandled == pending = {} /\ InFlight = {}
MsgsOfOrder(o) == {m \in Msgs : ButtonOf(m).orderRecId = o}

\* C38 (as claimed): once every approval event has been handled, whatever the
\* interleaving of confirm clicks of different sellers, the message carrying
\* the "Confirmed by <seller>" note is the message whose unit and linked
\* seller are the order's confirmed terms, and every other logged message of
\* the order carries a closed or denied note; stated for runs in which no
\* call to the record store or to Discord failed.
C38_NoteMatchesTerms ==
  \A o \in Orders :
    (AllHandled /\ faults = 0 /\ Writers(o) # {}) =>
       /\ \A m \in MsgsOfOrder(o) :
            msgs[m].note.kind = "confirmedBy" =>
               /\ ext[o].confirmedInv = <<ButtonOf(m).inventoryRecordId>>
               /\ ext[o].confirmedSeller = invSeller[ButtonOf(m).inventoryRecordId]
       /\ \A m \in listOfferMessagesForOrder(o) :
            msgs[m].note.kind \in {"confirmedBy", "closedOther", "denied"}

ConfirmNotes == {"confirmedBy", "closedOther"}
EditedTo(m, kinds) == msgs'[m] # msgs[m] /\ msgs'[m].note.kind \in kinds

\* C39: a handler edits its message to "Confirmed by <seller>", or a sibling
\* to "Confirmed by another seller", only after its own confirmation write
\* has succeeded; a handler whose seller resolution or confirmation write
\* fails leaves the order records and every message as they were and ends.
C39_EditsOnlyAfterWrite ==
  [][\A h \in ClickIds :
       (ch'[h] # ch[h] /\ ch[h].pc # "unused") =>
          /\ (\E m \in Msgs : EditedTo(m, ConfirmNotes)) =>
                /\ ch[h].wrote /\ ch[h].action = "confirm_ext"
                /\ ch[h].pc \in {"disableSelf", "siblings"}
          /\ EditedTo(ch[h].messageId, {"confirmedBy"}) =>
                (ch[h].pc = "disableSelf" /\ msgs'[ch[h].messageId].note.who = ch[h].sellerId)
          /\ (\E m \in Msgs \ {ch[h].messageId} : msgs'[m] # msgs[m]) =>
                (ch[h].pc = "siblings" /\ \A m \in Msgs : msgs'[m] # msgs[m] => msgs'[m] = ClosedNote)
          /\ ch[h].pc = "resolve" => (ext' = ext /\ msgs' = msgs /\ ~ch'[h].wrote)
          /\ (ch[h].pc \in {"resolve", "write"} /\ ch'[h].outcome = "error") =>
                /\ ext' = ext /\ msgs' = msgs
                /\ ch'[h].pc = "done" /\ ~ch'[h].wrote
          /\ (ch[h].pc = "write" /\ ch'[h].outcome # "error") =>
                (ch'[h].wrote /\ ch'[h].pc = "disableSelf" /\ msgs' = msgs)]_vars

\* C39 witness: a confirm whose write failed has ended with the order blank
\* and its message still enabled, after another confirm of the order failed
\* in seller resolution
C39_Witness ==
  \E h, g \in ClickIds :
    /\ ch[h].action = "confirm_ext" /\ ch[h].pc = "done" /\ ch[h].outcome = "error"
    /\ ch[h].confirmedSellerRecId # "" /\ ~ch[h].wrote
    /\ ch[g].action = "confirm_ext" /\ ch[g].pc = "done" /\ ch[g].outcome = "error"
    /\ ch[g].confirmedSellerRecId = "" /\ ch[g].orderRecId = ch[h].orderRecId
    /\ ext[ch[h].orderRecId] = BlankExt
    /\ \A m \in Msgs : msgs[m] = FreshMsgs[m]

C39_EditedAfterWriteReached ==
  \E h \in ClickIds :
    /\ ch[h].wrote /\ ch[h].outcome = "confirmed"
    /\ msgs[ch[h].messageId].note = [kind |-> "confirmedBy", who |-> ch[h].sellerId]
    /\ \E m \in Msgs \ {ch[h].messageId} : msgs[m] = ClosedNote

\* ============================================ fan-out properties, rounding
\* C40 (as claimed): whenever the decision is "offer", the price on the
\* Accept button (the house amount rounded to 2 decimals) is strictly lower
\* than the seller's displayed amount rounded to 2 decimals.
C40_OfferButtonBelowSeller ==
  (dec.out # <<>> /\ dec.out[1].mode = "offer") =>
     buttonPrice(dec.out[1].mode, dec.out[1]) < toFixed2(dec.out[1].yourAmount)

====
